---- MODULE Spec2Model ----
(***************************************************************************)
(* Backend abstraction and routing layer of my_deepagents: the in-memory   *)
(* (StateBackend), persistent store (StoreBackend), real filesystem        *)
(* (FilesystemBackend) and composite router (CompositeBackend) backends,   *)
(* with the text utilities they share.                                     *)
(*                                                                         *)
(* Strings are sequences of one-character strings, so that the character   *)
(* level operations of the code (startswith, count, replace, split,        *)
(* splitlines, strip, slicing) are computed, not assumed.  An optional     *)
(* value is a sequence of length at most one: None is <<>>, a present      *)
(* value v is <<v>>.                                                       *)
(***************************************************************************)
EXTENDS Integers, Sequences, FiniteSets, TLC

None == <<>>
Some(v) == <<v>>

\* The element of a one-element set.  An intermediate result x of the code is
\* bound as The({ f(x) : x \in {e} }), which evaluates e once.
The(S) == CHOOSE x \in S : TRUE

NL == "\n"
CR == "\r"
SEP == "/"

(***************************************************************************)
(* Python string primitives.                                               *)
(***************************************************************************)

\* s[i:] with 0-based i, as Python slices (an index past the end gives "").
Slice(s, i) == IF i >= Len(s) THEN <<>> ELSE SubSeq(s, i + 1, Len(s))

\* s.startswith(p)
StartsWith(s, p) == Len(p) <= Len(s) /\ SubSeq(s, 1, Len(p)) = p

\* s.endswith(p)
EndsWith(s, p) == Len(p) <= Len(s) /\ SubSeq(s, Len(s) - Len(p) + 1, Len(s)) = p

\* sub occurs in s at the 1-based position i
MatchAt(s, sub, i) == i + Len(sub) - 1 <= Len(s) /\ SubSeq(s, i, i + Len(sub) - 1) = sub

\* sub in s
Contains(s, sub) == \E i \in 1..(Len(s) + 1) : MatchAt(s, sub, i)

RECURSIVE CountFrom(_, _, _)
CountFrom(s, sub, i) ==
    IF i > Len(s) + 1 THEN 0
    ELSE IF MatchAt(s, sub, i)
         THEN 1 + CountFrom(s, sub, IF Len(sub) = 0 THEN i + 1 ELSE i + Len(sub))
         ELSE CountFrom(s, sub, i + 1)

\* s.count(sub): the number of non-overlapping occurrences, scanning from the
\* left; the empty string occurs len(s) + 1 times.
PyCount(s, sub) == CountFrom(s, sub, 1)

RECURSIVE ReplaceFrom(_, _, _, _)
ReplaceFrom(s, old, new, i) ==
    IF i > Len(s) + 1 THEN <<>>
    ELSE IF MatchAt(s, old, i)
         THEN IF Len(old) = 0
              THEN new \o (IF i <= Len(s) THEN <<s[i]>> ELSE <<>>)
                       \o ReplaceFrom(s, old, new, i + 1)
              ELSE new \o ReplaceFrom(s, old, new, i + Len(old))
         ELSE (IF i <= Len(s) THEN <<s[i]>> ELSE <<>>) \o ReplaceFrom(s, old, new, i + 1)

\* s.replace(old, new): every non-overlapping occurrence, from the left.
PyReplace(s, old, new) == ReplaceFrom(s, old, new, 1)

RECURSIVE SplitFrom(_, _, _, _)
SplitFrom(s, c, i, cur) ==
    IF i > Len(s) THEN <<cur>>
    ELSE IF s[i] = c THEN <<cur>> \o SplitFrom(s, c, i + 1, <<>>)
         ELSE SplitFrom(s, c, i + 1, Append(cur, s[i]))

\* s.split(c) for a one-character separator: "" splits to [""].
PySplit(s, c) == SplitFrom(s, c, 1, <<>>)

RECURSIVE PyJoin(_, _)
\* sep.join(parts)
PyJoin(parts, sep) ==
    IF Len(parts) = 0 THEN <<>>
    ELSE IF Len(parts) = 1 THEN parts[1]
         ELSE parts[1] \o sep \o PyJoin(Tail(parts), sep)

RECURSIVE SplitLinesFrom(_, _, _)
SplitLinesFrom(s, i, cur) ==
    IF i > Len(s) THEN (IF Len(cur) = 0 THEN <<>> ELSE <<cur>>)
    ELSE IF s[i] = CR /\ i < Len(s) /\ s[i + 1] = NL
         THEN <<cur>> \o SplitLinesFrom(s, i + 2, <<>>)
         ELSE IF s[i] = NL \/ s[i] = CR
              THEN <<cur>> \o SplitLinesFrom(s, i + 1, <<>>)
              ELSE SplitLinesFrom(s, i + 1, Append(cur, s[i]))

\* s.splitlines(): breaks at \n, \r and \r\n; no empty last line after a
\* final line break; "" has no lines.
PySplitLines(s) == SplitLinesFrom(s, 1, <<>>)

RECURSIVE LStripSet(_, _)
LStripSet(s, cs) ==
    IF Len(s) > 0 /\ s[1] \in cs THEN LStripSet(Tail(s), cs) ELSE s

RECURSIVE RStripSet(_, _)
RStripSet(s, cs) ==
    IF Len(s) > 0 /\ s[Len(s)] \in cs THEN RStripSet(SubSeq(s, 1, Len(s) - 1), cs) ELSE s

\* s.strip()
PyStrip(s) == LStripSet(RStripSet(s, {" ", NL, CR, "\t"}), {" ", NL, CR, "\t"})

\* the numbers of a set in ascending order
Ascending(S) ==
    [k \in 1..Cardinality(S) |-> CHOOSE i \in S : Cardinality({j \in S : j < i}) = k - 1]

\* ord(c) for the characters the model uses
Ord(c) ==
    CASE c = "\t" -> 9
      [] c = NL -> 10
      [] c = CR -> 13
      [] c = " " -> 32
      [] c = "*" -> 42
      [] c = "." -> 46
      [] c = "/" -> 47
      [] c = "2" -> 50
      [] c = "a" -> 97
      [] c = "b" -> 98
      [] c = "c" -> 99
      [] c = "d" -> 100
      [] c = "k" -> 107
      [] c = "l" -> 108
      [] c = "m" -> 109
      [] c = "n" -> 110
      [] c = "o" -> 111
      [] c = "p" -> 112
      [] c = "r" -> 114
      [] c = "s" -> 115
      [] c = "t" -> 116
      [] c = "u" -> 117
      [] c = "x" -> 120
      [] c = "y" -> 121
      [] c = "~" -> 126

RECURSIVE StrLess(_, _)
\* s < t, the order Python sorts strings by (code points, shorter prefix first)
StrLess(s, t) ==
    IF Len(t) = 0 THEN FALSE
    ELSE IF Len(s) = 0 THEN TRUE
         ELSE IF s[1] = t[1] THEN StrLess(Tail(s), Tail(t))
              ELSE Ord(s[1]) < Ord(t[1])


\* the paths of a set, in ascending order
RECURSIVE SortedPaths(_)
SortedPaths(S) ==
    IF S = {} THEN <<>>
    ELSE The({ <<m>> \o SortedPaths(S \ {m})
               : m \in {CHOOSE x \in S : \A y \in S \ {x} : StrLess(x, y)} })

RECURSIVE InsertByPath(_, _)
\* e placed after every entry of the sorted sequence whose path is <= its own
InsertByPath(sorted, e) ==
    IF Len(sorted) = 0 THEN <<e>>
    ELSE IF StrLess(e.path, sorted[1].path) THEN <<e>> \o sorted
         ELSE <<sorted[1]>> \o InsertByPath(Tail(sorted), e)

RECURSIVE SortByPathFrom(_, _, _)
SortByPathFrom(entries, i, acc) ==
    IF i > Len(entries) THEN acc
    ELSE SortByPathFrom(entries, i + 1, InsertByPath(acc, entries[i]))

\* no sort at all
SortByPath_asis(entries) == entries

\* list.sort(key=lambda x: x.get("path", "")): a stable sort by path
SortByPath(entries) == SortByPathFrom(entries, 1, <<>>)

\* f with key k set to v (dict assignment)
DictSet(f, k, v) == [q \in DOMAIN f \cup {k} |-> IF q = k THEN v ELSE f[q]]

\* left.update(right)
DictUpdate(left, right) ==
    [q \in DOMAIN left \cup DOMAIN right |-> IF q \in DOMAIN right THEN right[q] ELSE left[q]]

EmptyDict == [q \in {} |-> None]

(***************************************************************************)
(* backends/utils.py                                                       *)
(***************************************************************************)

MAX_LINE_LENGTH == 10000

Min(a, b) == IF a <= b THEN a ELSE b

\* The chunks of one line: a row per chunk, labelled with the line number and
\* the chunk index (chunk 0 carries the plain line number, chunk k > 0 the
\* continuation marker "<line>.<k>").
LineRows(line, line_num) ==
    IF Len(line) <= MAX_LINE_LENGTH
    THEN << [num |-> line_num, chunk |-> 0, text |-> line] >>
    ELSE LET num_chunks == (Len(line) + MAX_LINE_LENGTH - 1) \div MAX_LINE_LENGTH
         IN  [k \in 1..num_chunks |->
                [num |-> line_num, chunk |-> k - 1,
                 text |-> SubSeq(line, (k - 1) * MAX_LINE_LENGTH + 1,
                                 Min((k - 1) * MAX_LINE_LENGTH + MAX_LINE_LENGTH, Len(line)))]]

RECURSIVE RowsFrom(_, _, _)
RowsFrom(lines, i, start_line) ==
    IF i > Len(lines) THEN <<>>
    ELSE LineRows(lines[i], i - 1 + start_line) \o RowsFrom(lines, i + 1, start_line)

\* The numbered rows of the listing; the text the code returns is these rows,
\* each rendered "<label>\t<text>", joined by line breaks.
format_content_with_line_numbers(lines, start_line) == RowsFrom(lines, 1, start_line)

\* a check that takes only the empty string for empty
check_empty_content_strict(content) == Len(content) = 0

\* TRUE when the code returns EMPTY_CONTENT_WARNING
check_empty_content(content) == Len(content) = 0 \/ Len(PyStrip(content)) = 0

file_data_to_string(file_data) == PyJoin(file_data.content, <<NL>>)

create_file_data(content, now) ==
    [content |-> PySplit(content, NL), created_at |-> now, modified_at |-> now]

update_file_data(file_data, content, now) ==
    [content |-> PySplit(content, NL), created_at |-> file_data.created_at, modified_at |-> now]

\* The three outcomes of a read: the sentinel notice, the offset error, the
\* numbered rows.
ReadLines(content, offset, limit) ==
    IF check_empty_content(content)
    THEN [kind |-> "empty_warning", rows |-> <<>>]
    ELSE LET lines == PySplitLines(content)
             start_idx == offset
             end_idx == Min(start_idx + limit, Len(lines))
         IN  IF start_idx >= Len(lines)
             THEN [kind |-> "offset_error", rows |-> <<>>]
             ELSE [kind |-> "lines",
                   rows |-> format_content_with_line_numbers(
                                SubSeq(lines, start_idx + 1, end_idx), start_idx + 1)]

format_read_response(file_data, offset, limit) ==
    ReadLines(file_data_to_string(file_data), offset, limit)

ReadNotFound == [kind |-> "not_found", rows |-> <<>>]
ReadBadItem == [kind |-> "bad_item", rows |-> <<>>]
ReadOsError == [kind |-> "os_error", rows |-> <<>>]

\* a replacement that refuses only from four occurrences on
perform_string_replacement_lax(content, old_string, new_string, replace_all) ==
    LET occurrences == PyCount(content, old_string)
    IN  IF occurrences = 0
        THEN [error |-> Some([kind |-> "string_not_found", count |-> 0]),
              content |-> <<>>, occurrences |-> 0]
        ELSE IF occurrences > 3 /\ ~replace_all
             THEN [error |-> Some([kind |-> "appears_n_times", count |-> occurrences]),
                   content |-> <<>>, occurrences |-> 0]
             ELSE [error |-> None,
                   content |-> PyReplace(content, old_string, new_string),
                   occurrences |-> occurrences]

\* a replacement that reports one occurrence whatever it replaced
perform_string_replacement_one(content, old_string, new_string, replace_all) ==
    LET occurrences == PyCount(content, old_string)
    IN  IF occurrences = 0
        THEN [error |-> Some([kind |-> "string_not_found", count |-> 0]),
              content |-> <<>>, occurrences |-> 0]
        ELSE IF occurrences > 1 /\ ~replace_all
             THEN [error |-> Some([kind |-> "appears_n_times", count |-> occurrences]),
                   content |-> <<>>, occurrences |-> 0]
             ELSE [error |-> None,
                   content |-> PyReplace(content, old_string, new_string),
                   occurrences |-> 1]

\* Either an error (the message names the string and, when ambiguous, the
\* count) or the new content with the number of occurrences.
perform_string_replacement(content, old_string, new_string, replace_all) ==
    LET occurrences == PyCount(content, old_string)
    IN  IF occurrences = 0
        THEN [error |-> Some([kind |-> "string_not_found", count |-> 0]),
              content |-> <<>>, occurrences |-> 0]
        ELSE IF occurrences > 1 /\ ~replace_all
             THEN [error |-> Some([kind |-> "appears_n_times", count |-> occurrences]),
                   content |-> <<>>, occurrences |-> 0]
             ELSE [error |-> None,
                   content |-> PyReplace(content, old_string, new_string),
                   occurrences |-> occurrences]

(***************************************************************************)
(* Result types (backends/protocol.py)                                     *)
(***************************************************************************)

WriteResult(error, path, files_update) ==
    [error |-> error, path |-> path, files_update |-> files_update, occurrences |-> None]

EditResult(error, path, files_update, occurrences) ==
    [error |-> error, path |-> path, files_update |-> files_update, occurrences |-> occurrences]

ErrExists == [kind |-> "already_exists", count |-> 0]
ErrNotFound == [kind |-> "file_not_found", count |-> 0]
ErrBadItem == [kind |-> "bad_item", count |-> 0]
ErrOs == [kind |-> "os_error", count |-> 0]

FileUploadResponse(path, error) == [path |-> path, error |-> error]

FileDownloadResponse(path, content, error) ==
    [path |-> path, content |-> content, error |-> error]

FileInfo(path, is_dir, size, modified_at) ==
    [path |-> path, is_dir |-> is_dir, size |-> size, modified_at |-> modified_at]

RECURSIVE DirectFrom(_, _, _)
\* the entries, in order, that lie directly in the directory and convert
DirectFrom(entries, normalized_path, i) ==
    IF i > Len(entries) THEN <<>>
    ELSE (IF /\ StartsWith(entries[i].key, normalized_path)
             /\ ~Contains(Slice(entries[i].key, Len(normalized_path)), <<SEP>>)
             /\ entries[i].fd # None
          THEN <<entries[i]>> ELSE <<>>) \o DirectFrom(entries, normalized_path, i + 1)

\* the immediate subdirectories the keys below the directory imply
Subdirs(entries, normalized_path) ==
    {normalized_path \o PySplit(Slice(entries[i].key, Len(normalized_path)), SEP)[1] \o <<SEP>> :
        i \in {j \in 1..Len(entries) :
                 /\ StartsWith(entries[j].key, normalized_path)
                 /\ Contains(Slice(entries[j].key, Len(normalized_path)), <<SEP>>)}}

\* the file entries followed by the directory entries, then the sort
LsInfos(direct, subdirs) ==
    SortByPath([i \in 1..Len(direct) |->
                   FileInfo(direct[i].key, FALSE,
                            Len(PyJoin(direct[i].fd[1].content, <<NL>>)),
                            Some(direct[i].fd[1].modified_at))]
               \o [i \in 1..Len(subdirs) |-> FileInfo(subdirs[i], TRUE, 0, None)])

\* The listing both flat-key backends build from their (key, record) pairs,
\* taken in iteration order; fd is None for a record that fails conversion.
LsFromEntries(entries, path) ==
    The({ LsInfos(DirectFrom(entries, normalized_path, 1),
                  SortedPaths(Subdirs(entries, normalized_path)))
          : normalized_path \in {IF EndsWith(path, <<SEP>>) THEN path ELSE path \o <<SEP>>} })

\* the (key, record) pairs of a mapping, keys ascending
DictEntries(files) ==
    The({ [i \in 1..Len(keys) |-> [key |-> keys[i], fd |-> Some(files[keys[i]])]]
          : keys \in {SortedPaths(DOMAIN files)} })

(***************************************************************************)
(* backends/state.py                                                       *)
(***************************************************************************)

StateBackend_ls_info(files, path) == LsFromEntries(DictEntries(files), path)

StateBackend_read(files, file_path, offset, limit) ==
    IF file_path \notin DOMAIN files THEN ReadNotFound
    ELSE format_read_response(files[file_path], offset, limit)

\* a write without the existence check
StateBackend_write_unchecked(files, file_path, content, now) ==
    WriteResult(None, Some(file_path),
                Some(DictSet(EmptyDict, file_path, create_file_data(content, now))))

\* a write whose delta carries the whole mapping
StateBackend_write_whole(files, file_path, content, now) ==
    IF file_path \in DOMAIN files
    THEN WriteResult(Some(ErrExists), None, None)
    ELSE WriteResult(None, Some(file_path),
                     Some(DictSet(files, file_path, create_file_data(content, now))))

StateBackend_write(files, file_path, content, now) ==
    IF file_path \in DOMAIN files
    THEN WriteResult(Some(ErrExists), None, None)
    ELSE WriteResult(None, Some(file_path),
                     Some(DictSet(EmptyDict, file_path, create_file_data(content, now))))

StateBackend_edit(files, file_path, old_string, new_string, replace_all, now) ==
    IF file_path \notin DOMAIN files
    THEN EditResult(Some(ErrNotFound), None, None, None)
    ELSE The({ IF result.error # None
               THEN EditResult(result.error, None, None, None)
               ELSE EditResult(None, Some(file_path),
                               Some(DictSet(EmptyDict, file_path,
                                        update_file_data(files[file_path], result.content, now))),
                               Some(result.occurrences))
               : result \in {perform_string_replacement(file_data_to_string(files[file_path]),
                                                        old_string, new_string, replace_all)} })

(***************************************************************************)
(* backends/store.py.  The store is a mapping from <<namespace, key>> to   *)
(* the stored value; a stored value has the three fields of a record, each *)
(* None when missing or of the wrong type.                                 *)
(***************************************************************************)

FILESYSTEM == "filesystem"

\* assistant_id: None, or Some(id); an empty id counts as absent
_get_namespace(assistant_id) ==
    IF assistant_id # None /\ assistant_id[1] # ""
    THEN <<assistant_id[1], FILESYSTEM>>
    ELSE <<FILESYSTEM>>

\* None when the code raises ValueError, else Some(FileData)
_convert_store_item_to_file_data(value) ==
    IF value.content = None \/ value.created_at = None \/ value.modified_at = None
    THEN None
    ELSE Some([content |-> value.content[1], created_at |-> value.created_at[1],
               modified_at |-> value.modified_at[1]])

_convert_file_data_to_store_value(file_data) ==
    [content |-> Some(file_data.content), created_at |-> Some(file_data.created_at),
     modified_at |-> Some(file_data.modified_at)]

\* store.get(namespace, key): None or Some(value)
StoreGet(store, namespace, key) ==
    IF <<namespace, key>> \in DOMAIN store THEN Some(store[<<namespace, key>>]) ELSE None

\* store.put(namespace, key, value)
StorePut(store, namespace, key, value) == DictSet(store, <<namespace, key>>, value)

RECURSIVE SetToSeq(_)
\* the elements of a set in some fixed order
SetToSeq(S) ==
    IF S = {} THEN <<>>
    ELSE The({ <<m>> \o SetToSeq(S \ {m}) : m \in {CHOOSE x \in S : TRUE} })

RECURSIVE ConcatAll(_)
ConcatAll(seqs) == IF Len(seqs) = 0 THEN <<>> ELSE seqs[1] \o ConcatAll(Tail(seqs))

\* every item whose namespace starts with the given namespace prefix (the
\* store searches by prefix), as (key, value) pairs in the store's iteration
\* order: namespace by namespace, keys ascending within one
StoreAll(store, namespace) ==
    The({ ConcatAll([i \in 1..Len(nss) |->
              The({ [j \in 1..Len(ks) |-> [key |-> ks[j], value |-> store[<<nss[i], ks[j]>>]]]
                    : ks \in {SortedPaths({nk[2] : nk \in {x \in DOMAIN store :
                                                               x[1] = nss[i]}})} })])
          : nss \in {SetToSeq({nk[1] : nk \in {x \in DOMAIN store :
                                                  StartsWith(x[1], namespace)}})} })

\* store.search(namespace, limit=, offset=): one page
StoreSearch(store, namespace, limit, offset) ==
    The({ SubSeq(all, offset + 1, Min(offset + limit, Len(all)))
          : all \in {StoreAll(store, namespace)} })

PAGE_SIZE == 100

RECURSIVE SearchFrom(_, _, _, _)
SearchFrom(store, namespace, page_size, offset) ==
    LET page_items == StoreSearch(store, namespace, page_size, offset)
    IN  IF Len(page_items) = 0 THEN <<>>
        ELSE IF Len(page_items) < page_size THEN page_items
             ELSE page_items \o SearchFrom(store, namespace, page_size, offset + page_size)

\* One pass of the loop of _search_store_paginated.  st is the position of
\* the loop: [offset, all_items, requests, done], requests the offsets asked
\* of the store so far.
\* a pass that tests the size of the page before keeping its items
SearchPass_dropping(store, namespace, page_size, st) ==
    The({ IF Len(page_items) < page_size
          THEN [st EXCEPT !.requests = Append(@, st.offset), !.done = TRUE]
          ELSE [offset |-> st.offset + page_size,
                all_items |-> st.all_items \o page_items,
                requests |-> Append(st.requests, st.offset), done |-> FALSE]
          : page_items \in {StoreSearch(store, namespace, page_size, st.offset)} })

SearchPass(store, namespace, page_size, st) ==
    The({ IF Len(page_items) = 0
          THEN [st EXCEPT !.requests = Append(@, st.offset), !.done = TRUE]
          ELSE IF Len(page_items) < page_size
               THEN [offset |-> st.offset, all_items |-> st.all_items \o page_items,
                     requests |-> Append(st.requests, st.offset), done |-> TRUE]
               ELSE [offset |-> st.offset + page_size,
                     all_items |-> st.all_items \o page_items,
                     requests |-> Append(st.requests, st.offset), done |-> FALSE]
          : page_items \in {StoreSearch(store, namespace, page_size, st.offset)} })

_search_store_paginated(store, namespace, page_size) ==
    SearchFrom(store, namespace, page_size, 0)

StoreBackend_ls_info(store, namespace, path) ==
    The({ LsFromEntries([i \in 1..Len(items) |->
                            [key |-> items[i].key,
                             fd |-> _convert_store_item_to_file_data(items[i].value)]],
                        path)
          : items \in {_search_store_paginated(store, namespace, PAGE_SIZE)} })

StoreBackend_read(store, namespace, file_path, offset, limit) ==
    The({ IF item = None THEN ReadNotFound
          ELSE The({ IF fd = None THEN ReadBadItem
                     ELSE format_read_response(fd[1], offset, limit)
                     : fd \in {_convert_store_item_to_file_data(item[1])} })
          : item \in {StoreGet(store, namespace, file_path)} })

\* the result and the store after the call
StoreBackend_write(store, namespace, file_path, content, now) ==
    IF StoreGet(store, namespace, file_path) # None
    THEN [res |-> WriteResult(Some(ErrExists), None, None), store |-> store]
    ELSE [res |-> WriteResult(None, Some(file_path), None),
          store |-> StorePut(store, namespace, file_path,
                             _convert_file_data_to_store_value(create_file_data(content, now)))]

\* a rewrite that stamps the record even when the replacement failed
StoreRewrite_touching(store, namespace, file_path, file_data, result, now) ==
    [res |-> IF result.error # None THEN EditResult(result.error, None, None, None)
             ELSE EditResult(None, Some(file_path), None, Some(result.occurrences)),
     store |-> StorePut(store, namespace, file_path,
                        _convert_file_data_to_store_value(
                            update_file_data(file_data,
                                IF result.error # None THEN file_data_to_string(file_data)
                                ELSE result.content, now)))]

\* the replacement on the record and the put
StoreRewrite(store, namespace, file_path, file_data, result, now) ==
    IF result.error # None
    THEN [res |-> EditResult(result.error, None, None, None), store |-> store]
    ELSE [res |-> EditResult(None, Some(file_path), None, Some(result.occurrences)),
          store |-> StorePut(store, namespace, file_path,
                             _convert_file_data_to_store_value(
                                 update_file_data(file_data, result.content, now)))]

StoreBackend_edit(store, namespace, file_path, old_string, new_string, replace_all, now) ==
    The({ IF item = None
          THEN [res |-> EditResult(Some(ErrNotFound), None, None, None), store |-> store]
          ELSE The({ IF fd = None
                     THEN [res |-> EditResult(Some(ErrBadItem), None, None, None),
                           store |-> store]
                     ELSE StoreRewrite(store, namespace, file_path, fd[1],
                                       perform_string_replacement(file_data_to_string(fd[1]),
                                           old_string, new_string, replace_all),
                                       now)
                     : fd \in {_convert_store_item_to_file_data(item[1])} })
          : item \in {StoreGet(store, namespace, file_path)} })

\* The bytes of an upload are Some(text) when they decode as UTF-8 to text
\* and None when they do not decode.  The call raises at the first element
\* that does not decode; the elements before it have been put.
RECURSIVE StoreBackend_upload_files(_, _, _, _)
\* [raised, store, responses]
StoreBackend_upload_files(store, namespace, files, now) ==
    IF Len(files) = 0 THEN [raised |-> FALSE, store |-> store, responses |-> <<>>]
    ELSE IF files[1].content = None
         THEN [raised |-> TRUE, store |-> store, responses |-> <<>>]
         ELSE The({ IF r.raised THEN r
                    ELSE [r EXCEPT !.responses =
                                       <<FileUploadResponse(files[1].path, None)>> \o @]
                    : r \in {StoreBackend_upload_files(
                                 StorePut(store, namespace, files[1].path,
                                          _convert_file_data_to_store_value(
                                              create_file_data(files[1].content[1], now))),
                                 namespace, Tail(files), now)} })

RECURSIVE StoreBackend_download_files(_, _, _)
\* [raised, responses]: the call raises at the first stored value that does
\* not convert
StoreBackend_download_files(store, namespace, paths) ==
    IF Len(paths) = 0 THEN [raised |-> FALSE, responses |-> <<>>]
    ELSE The({ IF item # None /\ _convert_store_item_to_file_data(item[1]) = None
               THEN [raised |-> TRUE, responses |-> <<>>]
               ELSE The({ IF r.raised THEN r
                          ELSE [r EXCEPT !.responses =
                                  <<IF item = None
                                    THEN FileDownloadResponse(paths[1], None,
                                                              Some("file_not_found"))
                                    ELSE FileDownloadResponse(paths[1],
                                             Some(file_data_to_string(
                                                 _convert_store_item_to_file_data(item[1])[1])),
                                             None)>> \o @]
                          : r \in {StoreBackend_download_files(store, namespace,
                                                               Tail(paths))} })
               : item \in {StoreGet(store, namespace, paths[1])} })

(***************************************************************************)
(* backends/filesystem.py.  The disk is a mapping from a real path (the    *)
(* sequence of its segments) to a node: a directory, a regular file with   *)
(* its content and modification time, or a symbolic link with its target   *)
(* (a real path).  The root <<>> is a directory.  A backend is the record  *)
(* of its constructor arguments: cwd (a real path) and virtual_mode.       *)
(***************************************************************************)

DirNode == [type |-> "dir", content |-> <<>>, target |-> <<>>, mtime |-> 0]
FileNode(content, mtime) == [type |-> "file", content |-> content, target |-> <<>>, mtime |-> mtime]
LinkNode(target) == [type |-> "link", content |-> <<>>, target |-> target, mtime |-> 0]

Front(seq) == SubSeq(seq, 1, Len(seq) - 1)

RECURSIVE RealSegs(_)
RealSegs(segs) ==
    IF Len(segs) = 0 THEN <<>>
    ELSE (IF segs[1] # <<>> /\ segs[1] # <<".">> THEN <<segs[1]>> ELSE <<>>)
             \o RealSegs(Tail(segs))

\* the segments pathlib keeps of a path string: empty and "." segments go
PathParts(str) == RealSegs(PySplit(str, SEP))

RECURSIVE ResolveFrom(_, _, _)
ResolveFrom(disk, cur, rest) ==
    IF Len(rest) = 0 THEN cur
    ELSE IF rest[1] = <<".", ".">>
         THEN ResolveFrom(disk, IF Len(cur) = 0 THEN cur ELSE Front(cur), Tail(rest))
         ELSE LET cand == Append(cur, rest[1])
              IN  IF cand \in DOMAIN disk /\ disk[cand].type = "link"
                  THEN ResolveFrom(disk, <<>>, disk[cand].target \o Tail(rest))
                  ELSE ResolveFrom(disk, cand, Tail(rest))

\* Path.resolve() of an absolute path: symbolic links followed, ".." applied
\* to the path resolved so far, missing components kept as they are
Resolve(disk, parts) == ResolveFrom(disk, <<>>, parts)

\* full.relative_to(cwd) succeeds
IsRelativeTo(full, cwd) == Len(cwd) <= Len(full) /\ SubSeq(full, 1, Len(cwd)) = cwd

\* the containment check of the resolved path
CheckInside(full, cwd) ==
    IF IsRelativeTo(full, cwd) THEN [raised |-> FALSE, full |-> full]
    ELSE [raised |-> TRUE, full |-> <<>>]

\* [raised, full]: raised when the code raises ValueError
_resolve_path(fs, disk, key) ==
    IF fs.virtual_mode
    THEN The({ IF Contains(vpath, <<".", ".">>) \/ StartsWith(vpath, <<"~">>)
               THEN [raised |-> TRUE, full |-> <<>>]
               ELSE CheckInside(Resolve(disk, fs.cwd \o PathParts(LStripSet(vpath, {SEP}))),
                                fs.cwd)
               : vpath \in {IF StartsWith(key, <<SEP>>) THEN key ELSE <<SEP>> \o key} })
    ELSE IF StartsWith(key, <<SEP>>)
         THEN [raised |-> FALSE, full |-> PathParts(key)]
         ELSE [raised |-> FALSE, full |-> Resolve(disk, fs.cwd \o PathParts(key))]

\* Path.exists(): the path, links followed, names a node
Exists(disk, rp) == Resolve(disk, rp) \in DOMAIN disk

\* Path.is_file() / Path.is_dir(): links followed
IsFile(disk, rp) == Exists(disk, rp) /\ disk[Resolve(disk, rp)].type = "file"
IsDir(disk, rp) == Exists(disk, rp) /\ disk[Resolve(disk, rp)].type = "dir"

\* where an open of rp lands: the directories of the path are followed through
\* links, the final component is not (O_NOFOLLOW)
OpenTarget(disk, rp) ==
    IF Len(rp) = 0 THEN <<>> ELSE Append(Resolve(disk, Front(rp)), rp[Len(rp)])

\* the prefixes of the directory path d that name no node
MissingDirs(disk, d) ==
    {SubSeq(d, 1, n) : n \in {m \in 1..Len(d) : SubSeq(d, 1, m) \notin DOMAIN disk}}

\* parent.mkdir(parents=True, exist_ok=True) on the directory path dp:
\* [ok, disk]; it fails when dp or one of its ancestors is no directory
Mkdirs(disk, dp) ==
    The({ IF \E n \in 0..Len(d) : /\ SubSeq(d, 1, n) \in DOMAIN disk
                                  /\ disk[SubSeq(d, 1, n)].type # "dir"
          THEN [ok |-> FALSE, disk |-> disk]
          ELSE [ok |-> TRUE,
                disk |-> [q \in DOMAIN disk \cup MissingDirs(disk, d) |->
                             IF q \in DOMAIN disk THEN disk[q] ELSE DirNode]]
          : d \in {Resolve(disk, dp)} })

\* what a text-mode read returns for the stored bytes (universal newlines)
TextModeRead(content) == PyReplace(PyReplace(content, <<CR, NL>>, <<NL>>), <<CR>>, <<NL>>)

\* [raised, res]
FilesystemBackend_read(fs, disk, file_path, offset, limit) ==
    The({ IF r.raised THEN [raised |-> TRUE, res |-> ReadOsError]
          ELSE IF ~Exists(disk, r.full) \/ ~IsFile(disk, r.full)
               THEN [raised |-> FALSE, res |-> ReadNotFound]
               ELSE The({ IF disk[t].type # "file"
                          THEN [raised |-> FALSE, res |-> ReadOsError]
                          ELSE [raised |-> FALSE,
                                res |-> ReadLines(TextModeRead(disk[t].content), offset, limit)]
                          : t \in {OpenTarget(disk, r.full)} })
          : r \in {_resolve_path(fs, disk, file_path)} })

\* the open with O_CREAT | O_TRUNC | O_NOFOLLOW and the write, after the
\* parent directories were made (mk): [raised, res, disk].  The open fails
\* on a link and on a directory; a file that is there is truncated (one
\* can be there only when another writer has made it since the check)
FsCreate(mk, full, file_path, content, now) ==
    IF Len(full) = 0 \/ ~mk.ok
    THEN [raised |-> FALSE, res |-> WriteResult(Some(ErrOs), None, None), disk |-> mk.disk]
    ELSE The({ IF t \in DOMAIN mk.disk /\ mk.disk[t].type # "file"
               THEN [raised |-> FALSE, res |-> WriteResult(Some(ErrOs), None, None),
                     disk |-> mk.disk]
               ELSE [raised |-> FALSE, res |-> WriteResult(None, Some(file_path), None),
                     disk |-> DictSet(mk.disk, t, FileNode(content, now))]
               : t \in {OpenTarget(mk.disk, full)} })

\* [raised, res, disk]
FilesystemBackend_write(fs, disk, file_path, content, now) ==
    The({ IF r.raised
          THEN [raised |-> TRUE, res |-> WriteResult(None, None, None), disk |-> disk]
          ELSE IF Exists(disk, r.full)
               THEN [raised |-> FALSE, res |-> WriteResult(Some(ErrExists), None, None),
                     disk |-> disk]
               ELSE FsCreate(Mkdirs(disk, Front(r.full)), r.full, file_path, content, now)
          : r \in {_resolve_path(fs, disk, file_path)} })

\* the read, the replacement and the write back of the file opened at t
FsRewrite(disk, t, file_path, old_string, new_string, replace_all, now) ==
    IF disk[t].type # "file"
    THEN [raised |-> FALSE, res |-> EditResult(Some(ErrOs), None, None, None), disk |-> disk]
    ELSE The({ IF result.error # None
               THEN [raised |-> FALSE, res |-> EditResult(result.error, None, None, None),
                     disk |-> disk]
               ELSE [raised |-> FALSE,
                     res |-> EditResult(None, Some(file_path), None, Some(result.occurrences)),
                     disk |-> DictSet(disk, t, FileNode(result.content, now))]
               : result \in {perform_string_replacement(TextModeRead(disk[t].content),
                                                        old_string, new_string, replace_all)} })

\* [raised, res, disk]
FilesystemBackend_edit(fs, disk, file_path, old_string, new_string, replace_all, now) ==
    The({ IF r.raised
          THEN [raised |-> TRUE, res |-> EditResult(None, None, None, None), disk |-> disk]
          ELSE IF ~Exists(disk, r.full) \/ ~IsFile(disk, r.full)
               THEN [raised |-> FALSE, res |-> EditResult(Some(ErrNotFound), None, None, None),
                     disk |-> disk]
               ELSE FsRewrite(disk, OpenTarget(disk, r.full), file_path,
                              old_string, new_string, replace_all, now)
          : r \in {_resolve_path(fs, disk, file_path)} })

\* a real path as the string str(path)
RECURSIVE PathStr(_)
PathStr(rp) == IF Len(rp) = 0 THEN <<>> ELSE <<SEP>> \o rp[1] \o PathStr(Tail(rp))

\* the entry of the child c of the directory listed as shown (a real path)
FsEntry(fs, disk, shown, c) ==
    The({ The({ IF node.type = "file"
                THEN FileInfo(virt_path, FALSE, Len(node.content), Some(node.mtime))
                ELSE FileInfo(virt_path \o <<SEP>>, TRUE, 0, None)
                : virt_path \in {IF ~fs.virtual_mode THEN abs_path
                                 ELSE IF StartsWith(abs_path, PathStr(fs.cwd) \o <<SEP>>)
                                      THEN <<SEP>> \o Slice(abs_path, Len(PathStr(fs.cwd)) + 1)
                                      ELSE <<SEP>> \o abs_path},
                  node \in {disk[Resolve(disk, c)]} })
          : abs_path \in {PathStr(Append(shown, c[Len(c)]))} })

\* the children of the directory dir_path that are files or directories
\* (links followed), in the order the directory yields them
FsChildren(disk, dir_path) ==
    SetToSeq({c \in DOMAIN disk :
                 /\ Len(c) = Len(dir_path) + 1
                 /\ Front(c) = dir_path
                 /\ Exists(disk, c)
                 /\ disk[Resolve(disk, c)].type \in {"file", "dir"}})

\* [raised, infos]
FilesystemBackend_ls_info(fs, disk, path) ==
    The({ IF r.raised THEN [raised |-> TRUE, infos |-> <<>>]
          ELSE IF ~Exists(disk, r.full) \/ ~IsDir(disk, r.full)
               THEN [raised |-> FALSE, infos |-> <<>>]
               ELSE The({ [raised |-> FALSE,
                           infos |-> SortByPath([i \in 1..Len(kept) |->
                                                    FsEntry(fs, disk, r.full, kept[i])])]
                          : kept \in {FsChildren(disk, Resolve(disk, r.full))} })
          : r \in {_resolve_path(fs, disk, path)} })

(***************************************************************************)
(* middleware/filesystem.py: the merge rule of the session state, which    *)
(* the caller applies to the delta a mutation returns.  A key mapped to    *)
(* None in right is a tombstone.                                          *)
(***************************************************************************)

\* a merge that takes a tombstone for "no change"
_file_data_reducer_keeping(left, right) ==
    IF left = None
    THEN [k \in {q \in DOMAIN right : right[q] # None} |-> right[k][1]]
    ELSE [k \in DOMAIN left[1] \cup {q \in DOMAIN right : right[q] # None} |->
             IF k \in DOMAIN right /\ right[k] # None THEN right[k][1] ELSE left[1][k]]

\* left: None or Some(mapping); right: mapping from path to None or Some(record)
_file_data_reducer(left, right) ==
    IF left = None
    THEN [k \in {q \in DOMAIN right : right[q] # None} |-> right[k][1]]
    ELSE [k \in (DOMAIN left[1] \ {q \in DOMAIN right : right[q] = None})
                    \cup {q \in DOMAIN right : right[q] # None} |->
             IF k \in DOMAIN right THEN right[k][1] ELSE left[1][k]]

\* a delta of records, as the reducer's right argument
AsUpdate(files_update) == [k \in DOMAIN files_update |-> Some(files_update[k])]

(***************************************************************************)
(* Leaf backends.  A backend is a record: kind is "state", "store" or      *)
(* "fs" (with cwd and virtual_mode).  The storage w joins the session      *)
(* state's files, the store and the disk; ctx carries the assistant id of  *)
(* the call context and the clock reading of the call.                     *)
(***************************************************************************)

Leaf(kind) == [kind |-> kind, cwd |-> <<>>, virtual_mode |-> FALSE]
FsBackend(cwd, virtual_mode) == [kind |-> "fs", cwd |-> cwd, virtual_mode |-> virtual_mode]

LeafRead(b, w, ctx, file_path, offset, limit) ==
    CASE b.kind = "state" ->
            [raised |-> FALSE, res |-> StateBackend_read(w.files, file_path, offset, limit)]
      [] b.kind = "store" ->
            [raised |-> FALSE,
             res |-> StoreBackend_read(w.store, _get_namespace(ctx.assistant_id),
                                       file_path, offset, limit)]
      [] b.kind = "fs" -> FilesystemBackend_read(b, w.disk, file_path, offset, limit)

LeafWrite(b, w, ctx, file_path, content) ==
    CASE b.kind = "state" ->
            [raised |-> FALSE, w |-> w,
             res |-> StateBackend_write(w.files, file_path, content, ctx.now)]
      [] b.kind = "store" ->
            The({ [raised |-> FALSE, w |-> [w EXCEPT !.store = r.store], res |-> r.res]
                  : r \in {StoreBackend_write(w.store, _get_namespace(ctx.assistant_id),
                                              file_path, content, ctx.now)} })
      [] b.kind = "fs" ->
            The({ [raised |-> r.raised, w |-> [w EXCEPT !.disk = r.disk], res |-> r.res]
                  : r \in {FilesystemBackend_write(b, w.disk, file_path, content, ctx.now)} })

LeafEdit(b, w, ctx, file_path, old_string, new_string, replace_all) ==
    CASE b.kind = "state" ->
            [raised |-> FALSE, w |-> w,
             res |-> StateBackend_edit(w.files, file_path, old_string, new_string,
                                       replace_all, ctx.now)]
      [] b.kind = "store" ->
            The({ [raised |-> FALSE, w |-> [w EXCEPT !.store = r.store], res |-> r.res]
                  : r \in {StoreBackend_edit(w.store, _get_namespace(ctx.assistant_id),
                                             file_path, old_string, new_string, replace_all,
                                             ctx.now)} })
      [] b.kind = "fs" ->
            The({ [raised |-> r.raised, w |-> [w EXCEPT !.disk = r.disk], res |-> r.res]
                  : r \in {FilesystemBackend_edit(b, w.disk, file_path, old_string, new_string,
                                                  replace_all, ctx.now)} })

LeafLs(b, w, ctx, path) ==
    CASE b.kind = "state" -> [raised |-> FALSE, infos |-> StateBackend_ls_info(w.files, path)]
      [] b.kind = "store" ->
            [raised |-> FALSE,
             infos |-> StoreBackend_ls_info(w.store, _get_namespace(ctx.assistant_id), path)]
      [] b.kind = "fs" -> FilesystemBackend_ls_info(b, w.disk, path)

\* the text of the file a leaf backend holds at file_path, as its read and
\* edit load it: None when there is no such file or it cannot be loaded
LeafContent(b, w, ctx, file_path) ==
    CASE b.kind = "state" ->
            IF file_path \in DOMAIN w.files
            THEN Some(file_data_to_string(w.files[file_path])) ELSE None
      [] b.kind = "store" ->
            The({ IF item = None \/ _convert_store_item_to_file_data(item[1]) = None
                  THEN None
                  ELSE Some(file_data_to_string(_convert_store_item_to_file_data(item[1])[1]))
                  : item \in {StoreGet(w.store, _get_namespace(ctx.assistant_id), file_path)} })
      [] b.kind = "fs" ->
            The({ IF r.raised \/ ~IsFile(w.disk, r.full)
                       \/ w.disk[OpenTarget(w.disk, r.full)].type # "file"
                  THEN None
                  ELSE Some(TextModeRead(w.disk[OpenTarget(w.disk, r.full)].content))
                  : r \in {_resolve_path(b, w.disk, file_path)} })

\* The two halves of a write on a backend that owns its storage (store,
\* filesystem): the existence check, and the store that follows it when the
\* check found nothing.  Nothing makes the two one step.

\* a check that never finds the file
WriteExists_blind(b, w, ctx, file_path) == [raised |-> FALSE, exists |-> FALSE]

\* [raised, exists]
WriteExists(b, w, ctx, file_path) ==
    CASE b.kind = "store" ->
            [raised |-> FALSE,
             exists |-> StoreGet(w.store, _get_namespace(ctx.assistant_id), file_path) # None]
      [] b.kind = "fs" ->
            The({ [raised |-> r.raised, exists |-> ~r.raised /\ Exists(w.disk, r.full)]
                  : r \in {_resolve_path(b, w.disk, file_path)} })

\* [res, w]
WriteStore(b, w, ctx, file_path, content) ==
    CASE b.kind = "store" ->
            [res |-> WriteResult(None, Some(file_path), None),
             w |-> [w EXCEPT !.store =
                       StorePut(w.store, _get_namespace(ctx.assistant_id), file_path,
                                _convert_file_data_to_store_value(
                                    create_file_data(content, ctx.now)))]]
      [] b.kind = "fs" ->
            The({ The({ [res |-> q.res, w |-> [w EXCEPT !.disk = q.disk]]
                        : q \in {FsCreate(Mkdirs(w.disk, Front(r.full)), r.full, file_path,
                                          content, ctx.now)} })
                  : r \in {_resolve_path(b, w.disk, file_path)} })

\* The path check of the tools.

Letters ==
    { "a", "b", "c", "d", "e", "f", "g", "h", "i", "j", "k", "l", "m", "n", "o", "p", "q",
      "r", "s", "t", "u", "v", "w", "x", "y", "z", "A", "B", "C", "D", "E", "F", "G", "H",
      "I", "J", "K", "L", "M", "N", "O", "P", "Q", "R", "S", "T", "U", "V", "W", "X", "Y",
      "Z" }

\* os.path.normpath on POSIX for a path without a ".." segment (the check
\* has refused every path with ".." before it is applied): empty and "."
\* segments go, the leading slashes stay as one, or as two when there are
\* exactly two
normpath(path) ==
    IF Len(path) = 0 THEN <<".">>
    ELSE The({ The({ IF Len(joined) = 0 THEN <<".">> ELSE joined
                     : joined \in
                         {(IF ~StartsWith(path, <<SEP>>) THEN <<>>
                           ELSE IF StartsWith(path, <<SEP, SEP>>)
                                   /\ ~StartsWith(path, <<SEP, SEP, SEP>>)
                                THEN <<SEP, SEP>> ELSE <<SEP>>)
                          \o PyJoin([k \in 1..Len(keep) |-> comps[keep[k]]], <<SEP>>)} })
               : comps \in {PySplit(path, SEP)},
                 keep \in {Ascending({i \in 1..Len(PySplit(path, SEP)) :
                                         /\ PySplit(path, SEP)[i] # <<>>
                                         /\ PySplit(path, SEP)[i] # <<".">>})} })

\* _validate_path of the middleware (no allowed_prefixes, as the tools call
\* it): None when it raises ValueError, else Some(normalized)
Tool_validate_path(path) ==
    IF Contains(path, <<".", ".">>) \/ StartsWith(path, <<"~">>) THEN None
    ELSE IF Len(path) >= 2 /\ path[1] \in Letters /\ path[2] = ":" THEN None
         ELSE Some(The({ IF StartsWith(normalized, <<SEP>>) THEN normalized
                         ELSE <<SEP>> \o normalized
                         : normalized \in {PyReplace(normpath(path), <<"\\">>, <<SEP>>)} }))

(***************************************************************************)
(* backends/composite.py.  A router is the record of its default backend   *)
(* and its routes, a sequence of (prefix, backend) pairs in the order the  *)
(* routes mapping was built.  A call the router makes on a backend is      *)
(* recorded as (route, op, path), where route is the prefix of the route   *)
(* called, or <<>> for the default backend.                                *)
(***************************************************************************)

Composite(default, routes) == [kind |-> "composite", default |-> default, routes |-> routes]

DEFAULT == <<>>

Call(route, op, path) == [route |-> route, op |-> op, path |-> path]

RECURSIVE InsertByLen(_, _)
InsertByLen(sorted, r) ==
    IF Len(sorted) = 0 THEN <<r>>
    ELSE IF Len(r.prefix) > Len(sorted[1].prefix) THEN <<r>> \o sorted
         ELSE <<sorted[1]>> \o InsertByLen(Tail(sorted), r)

RECURSIVE SortByLenFrom(_, _, _)
SortByLenFrom(routes, i, acc) ==
    IF i > Len(routes) THEN acc
    ELSE SortByLenFrom(routes, i + 1, InsertByLen(acc, routes[i]))

\* sorted(routes.items(), key=lambda x: len(x[0]), reverse=True)
sorted_routes(routes) == SortByLenFrom(routes, 1, <<>>)

RECURSIVE FirstRoute(_, _, _, _)
\* the index of the first route of the sequence whose prefix (without its
\* trailing slashes when rstrip is set) the path starts with, or 0
FirstRoute(routes, path, rstrip, i) ==
    IF i > Len(routes) THEN 0
    ELSE IF StartsWith(path, IF rstrip THEN RStripSet(routes[i].prefix, {SEP})
                             ELSE routes[i].prefix)
         THEN i
         ELSE FirstRoute(routes, path, rstrip, i + 1)

\* a route hit that keeps the key as it came
Routed_unstripped(route, suffix) ==
    [route |-> route.prefix, backend |-> route.backend, key |-> route.prefix \o suffix]

\* the route hit, with the stripped key: suffix is the path after the prefix
Routed(route, suffix) ==
    [route |-> route.prefix, backend |-> route.backend,
     key |-> IF Len(suffix) > 0 THEN <<SEP>> \o suffix ELSE <<SEP>>]

\* [route, backend, key]
_get_backend_and_key(comp, key) ==
    The({ IF i > 0
          THEN Routed(sorted_routes(comp.routes)[i],
                      Slice(key, Len(sorted_routes(comp.routes)[i].prefix)))
          ELSE [route |-> DEFAULT, backend |-> comp.default, key |-> key]
          : i \in {FirstRoute(sorted_routes(comp.routes), key, FALSE, 1)} })

\* getattr(self.default, "runtime", None) is not None
HasRuntime(b) == b.kind \in {"state", "store"}

\* the storage after the mirroring of a delta into the default backend's
\* state; when the runtime's state cannot be read and updated (state_ok is
\* FALSE) the exception is swallowed and nothing is mirrored
_sync_state_if_needed(comp, w, state_ok, files_update) ==
    IF files_update = None \/ DOMAIN files_update[1] = {} THEN w
    ELSE IF HasRuntime(comp.default) /\ state_ok
         THEN [w EXCEPT !.files = DictUpdate(w.files, files_update[1])]
         ELSE w

CompositeBackend_read(comp, w, ctx, file_path, offset, limit) ==
    The({ The({ [raised |-> r.raised, res |-> r.res,
                 calls |-> <<Call(t.route, "read", t.key)>>]
                : r \in {LeafRead(t.backend, w, ctx, t.key, offset, limit)} })
          : t \in {_get_backend_and_key(comp, file_path)} })

\* a write that lets a failure of the mirroring out
CompositeBackend_write_strict(comp, w, ctx, file_path, content) ==
    The({ The({ [raised |-> r.raised \/ ( /\ ~ctx.state_ok
                                          /\ HasRuntime(comp.default)
                                          /\ r.res.files_update # None ),
                 res |-> r.res,
                 w |-> IF r.raised THEN r.w
                       ELSE _sync_state_if_needed(comp, r.w, ctx.state_ok, r.res.files_update),
                 calls |-> <<Call(t.route, "write", t.key)>>]
                : r \in {LeafWrite(t.backend, w, ctx, t.key, content)} })
          : t \in {_get_backend_and_key(comp, file_path)} })

\* a write through a route that is also sent to the default backend
CompositeBackend_write_both(comp, w, ctx, file_path, content) ==
    The({ The({ [raised |-> r.raised, res |-> r.res,
                 w |-> IF r.raised THEN r.w
                       ELSE IF t.route = DEFAULT
                            THEN _sync_state_if_needed(comp, r.w, ctx.state_ok,
                                                       r.res.files_update)
                            ELSE LeafWrite(comp.default,
                                           _sync_state_if_needed(comp, r.w, ctx.state_ok,
                                                                 r.res.files_update),
                                           ctx, t.key, content).w,
                 calls |-> <<Call(t.route, "write", t.key)>>]
                : r \in {LeafWrite(t.backend, w, ctx, t.key, content)} })
          : t \in {_get_backend_and_key(comp, file_path)} })

CompositeBackend_write(comp, w, ctx, file_path, content) ==
    The({ The({ [raised |-> r.raised, res |-> r.res,
                 w |-> IF r.raised THEN r.w
                       ELSE _sync_state_if_needed(comp, r.w, ctx.state_ok, r.res.files_update),
                 calls |-> <<Call(t.route, "write", t.key)>>]
                : r \in {LeafWrite(t.backend, w, ctx, t.key, content)} })
          : t \in {_get_backend_and_key(comp, file_path)} })

CompositeBackend_edit(comp, w, ctx, file_path, old_string, new_string, replace_all) ==
    The({ The({ [raised |-> r.raised, res |-> r.res,
                 w |-> IF r.raised THEN r.w
                       ELSE _sync_state_if_needed(comp, r.w, ctx.state_ok, r.res.files_update),
                 calls |-> <<Call(t.route, "edit", t.key)>>]
                : r \in {LeafEdit(t.backend, w, ctx, t.key, old_string, new_string,
                                  replace_all)} })
          : t \in {_get_backend_and_key(comp, file_path)} })

\* the route the listing of path is sent to, with the path it is given:
\* [route, backend, key], route DEFAULT when no route is hit
LsRoute(comp, path) ==
    The({ IF i > 0
          THEN Routed(sorted_routes(comp.routes)[i],
                      Slice(path, Len(sorted_routes(comp.routes)[i].prefix)))
          ELSE [route |-> DEFAULT, backend |-> comp.default, key |-> path]
          : i \in {FirstRoute(sorted_routes(comp.routes), path, TRUE, 1)} })

\* the path under which the router shows an inner path of a route
Reprefix(route_prefix, inner) == Front(route_prefix) \o inner

\* the entries the root listing adds: one directory per route
RouteEntries(sr) == [i \in 1..Len(sr) |-> FileInfo(sr[i].prefix, TRUE, 0, None)]

CompositeBackend_ls_info(comp, w, ctx, path) ==
    The({ The({ IF t.route # DEFAULT
                THEN [raised |-> r.raised,
                      infos |-> [i \in 1..Len(r.infos) |->
                                    [r.infos[i] EXCEPT
                                        !.path = Reprefix(t.route, r.infos[i].path)]],
                      calls |-> <<Call(t.route, "ls_info", t.key)>>]
                ELSE IF path = <<SEP>>
                     THEN [raised |-> r.raised,
                           infos |-> IF r.raised THEN <<>>
                                     ELSE SortByPath(r.infos \o
                                              RouteEntries(sorted_routes(comp.routes))),
                           calls |-> <<Call(DEFAULT, "ls_info", path)>>]
                     ELSE [raised |-> r.raised, infos |-> r.infos,
                           calls |-> <<Call(DEFAULT, "ls_info", path)>>]
                : r \in {LeafLs(t.backend, w, ctx, t.key)} })
          : t \in {LsRoute(comp, path)} })

\* upload_files or download_files of a leaf backend on a batch:
\* [raised, w, responses].  The in-memory backend defines neither and
\* inherits the bodies of the protocol, which return None; the filesystem
\* backend's batch operations are not modelled.
LeafBatch(b, w, ctx, op, batch) ==
    CASE b.kind = "state" -> [raised |-> FALSE, w |-> w, responses |-> None]
      [] b.kind = "store" /\ op = "upload_files" ->
            The({ [raised |-> r.raised, w |-> [w EXCEPT !.store = r.store],
                   responses |-> Some(r.responses)]
                  : r \in {StoreBackend_upload_files(w.store, _get_namespace(ctx.assistant_id),
                                                     batch, ctx.now)} })
      [] b.kind = "store" /\ op = "download_files" ->
            The({ [raised |-> r.raised, w |-> w, responses |-> Some(r.responses)]
                  : r \in {StoreBackend_download_files(w.store,
                                                       _get_namespace(ctx.assistant_id),
                                                       batch)} })

RECURSIVE Batches(_, _, _, _, _, _, _)
\* The loop over backend_batches of the router's batch operations.  items
\* are the elements of the input, targets their [route, backend, key], and
\* groups the routes selected, in the order of their first element (one
\* backend object per route entry).  acc is [raised, w, responses, calls]:
\* responses maps the index of an element to its result, None until its
\* group is done; the router raises when a backend raises and when a
\* backend returns None for its responses; it never returns None itself.
Batches(ctx, op, items, targets, groups, k, acc) ==
    IF k > Len(groups) \/ acc.raised THEN acc
    ELSE The({ The({ Batches(ctx, op, items, targets, groups, k + 1,
                         [raised |-> r.raised \/ r.responses = None,
                          w |-> r.w, none |-> FALSE,
                          calls |-> acc.calls \o <<Call(groups[k], op, batch)>>,
                          responses |->
                              IF r.raised \/ r.responses = None THEN acc.responses
                              ELSE [i \in 1..Len(items) |->
                                      IF targets[i].route # groups[k] THEN acc.responses[i]
                                      ELSE The({ IF j <= Len(r.responses[1])
                                                 THEN Some([r.responses[1][j] EXCEPT !.path =
                                                        IF op = "upload_files"
                                                        THEN items[i].path ELSE items[i]])
                                                 ELSE Some(IF op = "upload_files"
                                                           THEN FileUploadResponse(
                                                                    items[i].path, None)
                                                           ELSE FileDownloadResponse(
                                                                    items[i], None, None))
                                                 : j \in {Cardinality({x \in 1..i :
                                                            targets[x].route = groups[k]})} })]])
                     : r \in {LeafBatch(targets[idx[1]].backend, acc.w, ctx, op, batch)} })
               : idx \in {Ascending({i \in 1..Len(items) : targets[i].route = groups[k]})},
                 batch \in {[j \in 1..Cardinality({i \in 1..Len(items) :
                                                    targets[i].route = groups[k]}) |->
                              The({ IF op = "upload_files"
                                    THEN [path |-> targets[i].key, content |-> items[i].content]
                                    ELSE targets[i].key
                                    : i \in {Ascending({x \in 1..Len(items) :
                                                targets[x].route = groups[k]})[j]} })]} })

\* the routes a sequence of targets selects, each once, in the order of
\* their first element
BatchGroups(targets) ==
    The({ [k \in 1..Len(first) |-> targets[first[k]].route]
          : first \in {Ascending({i \in 1..Len(targets) :
                          \A j \in 1..(i - 1) : targets[j].route # targets[i].route})} })

\* files: a sequence of [path, content]; [raised, w, responses, calls]
CompositeBackend_upload_files(comp, w, ctx, files) ==
    The({ Batches(ctx, "upload_files", files, targets, BatchGroups(targets), 1,
                  [raised |-> FALSE, w |-> w, calls |-> <<>>, none |-> FALSE,
                   responses |-> [i \in 1..Len(files) |-> None]])
          : targets \in {[i \in 1..Len(files) |-> _get_backend_and_key(comp, files[i].path)]} })

\* paths: a sequence of paths; [raised, w, responses, calls]
CompositeBackend_download_files(comp, w, ctx, paths) ==
    The({ Batches(ctx, "download_files", paths, targets, BatchGroups(targets), 1,
                  [raised |-> FALSE, w |-> w, calls |-> <<>>, none |-> FALSE,
                   responses |-> [i \in 1..Len(paths) |-> None]])
          : targets \in {[i \in 1..Len(paths) |-> _get_backend_and_key(comp, paths[i])]} })

\* path: None or Some(path); None when the code raises ValueError, else
\* Some(normalized): the path with a slash at both ends
_validate_path(path) ==
    The({ IF Len(PyStrip(p)) = 0 THEN None
          ELSE Some(The({ IF EndsWith(n, <<SEP>>) THEN n ELSE n \o <<SEP>>
                          : n \in {IF StartsWith(p, <<SEP>>) THEN p ELSE <<SEP>> \o p} }))
          : p \in {IF path = None \/ Len(path[1]) = 0 THEN <<SEP>> ELSE path[1]} })

RECURSIVE GlobMatch_deep(_, _)
\* a match whose * also runs over separators
GlobMatch_deep(name, pat) ==
    IF Len(pat) = 0 THEN Len(name) = 0
    ELSE IF pat[1] = "*"
         THEN \/ GlobMatch_deep(name, Tail(pat))
              \/ Len(name) > 0 /\ GlobMatch_deep(Tail(name), pat)
         ELSE Len(name) > 0 /\ name[1] = pat[1] /\ GlobMatch_deep(Tail(name), Tail(pat))

RECURSIVE GlobMatch(_, _)
\* wcglob.globmatch(name, pat, flags=BRACE | GLOBSTAR) for patterns made of
\* literal characters, * and **: a * matches any run of characters other
\* than the separator, a ** that makes up the first segment (or the whole
\* pattern) matches any number of segments.  Braces, character classes and names that start
\* with a dot are not among the inputs of the model.
GlobMatch(name, pat) ==
    IF Len(pat) = 0 THEN Len(name) = 0
    ELSE IF StartsWith(pat, <<"*", "*", SEP>>)
         THEN \/ GlobMatch(name, Slice(pat, 3))
              \/ \E i \in 1..Len(name) : name[i] = SEP /\ GlobMatch(Slice(name, i), pat)
         ELSE IF pat = <<"*", "*">> THEN TRUE
              ELSE IF pat[1] = "*"
                   THEN \/ GlobMatch(name, Tail(pat))
                        \/ Len(name) > 0 /\ name[1] # SEP /\ GlobMatch(Tail(name), pat)
                   ELSE /\ Len(name) > 0 /\ name[1] = pat[1]
                        /\ GlobMatch(Tail(name), Tail(pat))

RECURSIVE InsertNewest(_, _)
\* m placed before the first pair that is older than it: what a stable sort
\* in reverse order does with the pairs taken in turn
InsertNewest(sorted, m) ==
    IF Len(sorted) = 0 THEN <<m>>
    ELSE IF sorted[1].modified_at < m.modified_at THEN <<m>> \o sorted
         ELSE <<sorted[1]>> \o InsertNewest(Tail(sorted), m)

RECURSIVE NewestFirst(_, _, _)
NewestFirst(matches, i, acc) ==
    IF i > Len(matches) THEN acc
    ELSE NewestFirst(matches, i + 1, InsertNewest(acc, matches[i]))

\* the paths matched, newest first; <<>> stands for "No files found"
_glob_search_files(files, pattern, path) ==
    The({ IF np = None THEN <<>>
          ELSE The({ The({ [i \in 1..Len(sorted) |-> sorted[i].path]
                           : sorted \in
                               {NewestFirst([k \in 1..Len(hit) |->
                                                [path |-> entries[hit[k]].key,
                                                 modified_at |->
                                                     entries[hit[k]].fd[1].modified_at]],
                                            1, <<>>)} })
                     : hit \in {Ascending({e \in 1..Len(entries) :
                          /\ StartsWith(entries[e].key, np[1])
                          /\ GlobMatch(
                                The({ IF Len(relative) = 0
                                      THEN PySplit(entries[e].key, SEP)[
                                               Len(PySplit(entries[e].key, SEP))]
                                      ELSE relative
                                      : relative \in {LStripSet(Slice(entries[e].key,
                                                                      Len(np[1])),
                                                                {SEP})} }),
                                pattern)})} })
          : np \in {_validate_path(Some(path))}, entries \in {DictEntries(files)} })

StateBackend_glob_info(files, pattern, path) ==
    The({ [i \in 1..Len(paths) |->
              FileInfo(paths[i], FALSE, Len(file_data_to_string(files[paths[i]])),
                       Some(files[paths[i]].modified_at))]
          : paths \in {_glob_search_files(files, pattern, path)} })

\* The search over (key, record) pairs taken in iteration order, without a
\* glob filter: [error, matches].  The patterns of the model are literal
\* texts, which a line matches when it contains them, and "(", which does
\* not compile.
grep_matches_from_files(entries, pattern, path) ==
    IF pattern = <<"(">> THEN [error |-> Some("invalid_regex"), matches |-> <<>>]
    ELSE The({ IF np = None THEN [error |-> None, matches |-> <<>>]
               ELSE [error |-> None,
                     matches |-> ConcatAll([e \in 1..Len(entries) |->
                         IF ~StartsWith(entries[e].key, np[1]) THEN <<>>
                         ELSE The({ [k \in 1..Len(hit) |->
                                       [path |-> entries[e].key, line |-> hit[k],
                                        text |-> entries[e].fd[1].content[hit[k]]]]
                                    : hit \in {Ascending({n \in 1..Len(entries[e].fd[1].content) :
                                                 Contains(entries[e].fd[1].content[n],
                                                          pattern)})} })])]
               : np \in {_validate_path(path)} })

\* grep_raw of a leaf backend (in-memory and store): [error, matches]; the
\* store backend leaves out the stored values that do not convert
LeafGrep(b, w, ctx, pattern, path) ==
    CASE b.kind = "state" -> grep_matches_from_files(DictEntries(w.files), pattern, path)
      [] b.kind = "store" ->
            The({ The({ grep_matches_from_files(
                            [k \in 1..Len(good) |->
                                [key |-> items[good[k]].key,
                                 fd |-> _convert_store_item_to_file_data(items[good[k]].value)]],
                            pattern, path)
                        : good \in {Ascending({i \in 1..Len(items) :
                                      _convert_store_item_to_file_data(items[i].value)
                                          # None})} })
                  : items \in {_search_store_paginated(w.store,
                                   _get_namespace(ctx.assistant_id), PAGE_SIZE)} })

\* an aggregation that asks every route whatever the answers are
GrepAll_through(comp, path, d, rs) ==
    [error |-> IF d.error # None THEN d.error
               ELSE IF \E i \in 1..Len(rs) : rs[i].error # None
                    THEN rs[CHOOSE i \in 1..Len(rs) : rs[i].error # None].error ELSE None,
     matches |-> IF d.error # None \/ \E i \in 1..Len(rs) : rs[i].error # None THEN <<>>
                 ELSE d.matches \o ConcatAll([i \in 1..Len(rs) |->
                          [k \in 1..Len(rs[i].matches) |->
                              [rs[i].matches[k] EXCEPT !.path =
                                  Reprefix(comp.routes[i].prefix, @)]]]),
     calls |-> <<Call(DEFAULT, "grep_raw", path)>> \o
               [i \in 1..Len(rs) |-> Call(comp.routes[i].prefix, "grep_raw", Some(<<SEP>>))]]

\* the search of the routes in the order of the routes mapping, each at "/",
\* after the default backend answered d: [error, matches, calls]
GrepAll(comp, path, d, rs) ==
    The({ IF d.error # None
          THEN [error |-> d.error, matches |-> <<>>,
                calls |-> <<Call(DEFAULT, "grep_raw", path)>>]
          ELSE [error |-> IF bad = {} THEN None ELSE rs[Ascending(bad)[1]].error,
                matches |-> IF bad # {} THEN <<>>
                            ELSE d.matches \o ConcatAll([i \in 1..Len(rs) |->
                                     [k \in 1..Len(rs[i].matches) |->
                                         [rs[i].matches[k] EXCEPT !.path =
                                             Reprefix(comp.routes[i].prefix, @)]]]),
                calls |-> <<Call(DEFAULT, "grep_raw", path)>> \o
                          [i \in 1..(IF bad = {} THEN Len(rs) ELSE Ascending(bad)[1]) |->
                              Call(comp.routes[i].prefix, "grep_raw", Some(<<SEP>>))]]
          : bad \in {{i \in 1..Len(rs) : rs[i].error # None}} })

\* the search sent to the route the path hits, with the path cut after the
\* prefix less its last character: [error, matches, calls]
GrepRoute(route, w, ctx, pattern, search_path) ==
    The({ [error |-> r.error,
           matches |-> [k \in 1..Len(r.matches) |->
                           [r.matches[k] EXCEPT !.path = Reprefix(route.prefix, @)]],
           calls |-> <<Call(route.prefix, "grep_raw", Some(search_path))>>]
          : r \in {LeafGrep(route.backend, w, ctx, pattern, Some(search_path))} })

\* path: None or Some(path); [error, matches, calls]
CompositeBackend_grep_raw(comp, w, ctx, pattern, path) ==
    The({ IF i > 0
          THEN GrepRoute(sorted_routes(comp.routes)[i], w, ctx, pattern,
                         IF Len(Slice(path[1], Len(sorted_routes(comp.routes)[i].prefix) - 1)) > 0
                         THEN Slice(path[1], Len(sorted_routes(comp.routes)[i].prefix) - 1)
                         ELSE <<SEP>>)
          ELSE GrepAll(comp, path, LeafGrep(comp.default, w, ctx, pattern, path),
                       [k \in 1..Len(comp.routes) |->
                           LeafGrep(comp.routes[k].backend, w, ctx, pattern, Some(<<SEP>>))])
          : i \in {IF path = None THEN 0
                   ELSE FirstRoute(sorted_routes(comp.routes), path[1], TRUE, 1)} })

\* isinstance(backend, SandboxBackendProtocol): a backend record carries the
\* field exec when its class implements the execution protocol
_supports_execution(b) == "exec" \in DOMAIN b

\* a backend with the file operations of b whose class also implements
\* SandboxBackendProtocol
Sandbox(b) ==
    [kind |-> b.kind, cwd |-> b.cwd, virtual_mode |-> b.virtual_mode, exec |-> TRUE]

\* the response of a sandbox to a command
ExecuteResponse(command) == [output |-> command, exit_code |-> Some(0), truncated |-> FALSE]

\* an execute that calls the default backend without the capability test
CompositeBackend_execute_unchecked(comp, command) ==
    [raised |-> FALSE, exc |-> "", res |-> Some(ExecuteResponse(command)),
     calls |-> <<Call(DEFAULT, "execute", command)>>]

\* [raised, exc, res, calls]
CompositeBackend_execute(comp, command) ==
    IF _supports_execution(comp.default)
    THEN [raised |-> FALSE, exc |-> "", res |-> Some(ExecuteResponse(command)),
          calls |-> <<Call(DEFAULT, "execute", command)>>]
    ELSE [raised |-> TRUE, exc |-> "NotImplementedError", res |-> None, calls |-> <<>>]

(***************************************************************************)
(* The calls of a caller on the backend it holds.                          *)
(***************************************************************************)

BackendRead(b, w, ctx, file_path, offset, limit) ==
    IF b.kind = "composite" THEN CompositeBackend_read(b, w, ctx, file_path, offset, limit)
    ELSE The({ [raised |-> r.raised, res |-> r.res, calls |-> <<>>]
               : r \in {LeafRead(b, w, ctx, file_path, offset, limit)} })

BackendWrite(b, w, ctx, file_path, content) ==
    IF b.kind = "composite" THEN CompositeBackend_write(b, w, ctx, file_path, content)
    ELSE The({ [raised |-> r.raised, res |-> r.res, w |-> r.w, calls |-> <<>>]
               : r \in {LeafWrite(b, w, ctx, file_path, content)} })

BackendEdit(b, w, ctx, file_path, old_string, new_string, replace_all) ==
    IF b.kind = "composite"
    THEN CompositeBackend_edit(b, w, ctx, file_path, old_string, new_string, replace_all)
    ELSE The({ [raised |-> r.raised, res |-> r.res, w |-> r.w, calls |-> <<>>]
               : r \in {LeafEdit(b, w, ctx, file_path, old_string, new_string, replace_all)} })

BackendLs(b, w, ctx, path) ==
    IF b.kind = "composite" THEN CompositeBackend_ls_info(b, w, ctx, path)
    ELSE The({ [raised |-> r.raised, infos |-> r.infos, calls |-> <<>>]
               : r \in {LeafLs(b, w, ctx, path)} })

\* The asynchronous counterparts.  BackendProtocol defines each of them as
\* the synchronous method run on a worker thread; a class has them when it
\* inherits from BackendProtocol, which the three leaf backends do and the
\* router does not: on a router the attribute is missing and the call
\* raises AttributeError before anything is done.
InheritsProtocol(b) == b.kind # "composite"

NoAttribute(w) ==
    [raised |-> TRUE, w |-> w, res |-> EditResult(None, None, None, None), infos |-> <<>>,
     calls |-> <<>>]

awrite(b, w, ctx, file_path, content) ==
    IF InheritsProtocol(b) THEN BackendWrite(b, w, ctx, file_path, content)
    ELSE NoAttribute(w)

aread(b, w, ctx, file_path, offset, limit) ==
    IF InheritsProtocol(b) THEN BackendRead(b, w, ctx, file_path, offset, limit)
    ELSE NoAttribute(w)

als_info(b, w, ctx, path) ==
    IF InheritsProtocol(b) THEN BackendLs(b, w, ctx, path)
    ELSE NoAttribute(w)

\* The session state after the caller has merged the delta of a mutation
\* (the write_file and edit_file tools return it as a state update, which
\* is merged under _file_data_reducer).
MergeDelta(w, raised, res) ==
    IF ~raised /\ res.error = None /\ res.files_update # None
    THEN [w EXCEPT !.files = _file_data_reducer(Some(w.files), AsUpdate(res.files_update[1]))]
    ELSE w

(***************************************************************************)
(* State                                                                   *)
(***************************************************************************)

VARIABLES
    backend,       \* the backend the caller holds
    files,         \* runtime.state["files"]: the session's mapping path -> record
    store,         \* the persistent store: <<namespace, key>> -> value
    disk,          \* the host filesystem: real path -> node
    assistant_id,  \* the assistant id of the call context: None or Some(id)
    now,           \* the clock
    last           \* the last call: its arguments, its result, the calls it made

vars == <<backend, files, store, disk, assistant_id, now, last>>

World == [files |-> files, store |-> store, disk |-> disk]
\* the context of a call: the assistant id of its config, its clock reading,
\* and whether the state of the default backend's runtime is usable (it is,
\* unless the call says otherwise)
Ctx(t) == [assistant_id |-> assistant_id, now |-> t, state_ok |-> TRUE]

NoRead == [kind |-> "none", rows |-> <<>>]
NoResult == EditResult(None, None, None, None)

\* state_ok is the environment of the call, mirrored the session's files as
\* the backend left them, before the caller merges the delta
Record(op, path, content, old, new, replace_all, offset, limit, raised, res, read, infos, calls, state_ok, mirrored) ==
    [op |-> op, path |-> path, content |-> content, old |-> old, new |-> new,
     replace_all |-> replace_all, offset |-> offset, limit |-> limit, raised |-> raised,
     res |-> res, read |-> read, infos |-> infos, calls |-> calls,
     state_ok |-> state_ok, mirrored |-> mirrored]

NoCall ==
    Record("none", <<>>, <<>>, <<>>, <<>>, FALSE, 0, 0, FALSE, NoResult, NoRead, <<>>, <<>>,
           TRUE, EmptyDict)

\* bounds
MaxClock == 2

\* a mutation that goes through needs a clock reading below the bound
Succeeds(r) == ~r.raised /\ r.res.error = None

Write(P, C, Oks) ==
    \E p \in P, c \in C, state_ok \in Oks :
        \E r \in {BackendWrite(backend, World, [Ctx(now + 1) EXCEPT !.state_ok = state_ok],
                                 p, c)} :
            \E w \in {MergeDelta(r.w, r.raised, r.res)} :
                /\ Succeeds(r) => now < MaxClock
                /\ files' = w.files /\ store' = w.store /\ disk' = w.disk
                /\ now' = IF Succeeds(r) THEN now + 1 ELSE now
                /\ last' = Record("write", p, c, <<>>, <<>>, FALSE, 0, 0, r.raised,
                                  IF r.raised THEN NoResult ELSE r.res, NoRead, <<>>, r.calls,
                                  state_ok, r.w.files)
                /\ UNCHANGED <<backend, assistant_id>>

Edit(P, O, N, Oks) ==
    \E p \in P, old \in O, new \in N, replace_all \in BOOLEAN, state_ok \in Oks :
        \E r \in {BackendEdit(backend, World, [Ctx(now + 1) EXCEPT !.state_ok = state_ok],
                                p, old, new, replace_all)} :
            \E w \in {MergeDelta(r.w, r.raised, r.res)} :
                /\ Succeeds(r) => now < MaxClock
                /\ files' = w.files /\ store' = w.store /\ disk' = w.disk
                /\ now' = IF Succeeds(r) THEN now + 1 ELSE now
                /\ last' = Record("edit", p, <<>>, old, new, replace_all, 0, 0, r.raised,
                                  IF r.raised THEN NoResult ELSE r.res, NoRead, <<>>, r.calls,
                                  state_ok, r.w.files)
                /\ UNCHANGED <<backend, assistant_id>>

Read(P, Offsets, Limits) ==
    \E p \in P, offset \in Offsets, limit \in Limits :
        \E r \in {BackendRead(backend, World, Ctx(now), p, offset, limit)} :
            /\ last' = Record("read", p, <<>>, <<>>, <<>>, FALSE, offset, limit, r.raised,
                              NoResult, IF r.raised THEN NoRead ELSE r.res, <<>>, r.calls,
                              TRUE, files)
            /\ UNCHANGED <<backend, files, store, disk, assistant_id, now>>

Ls(P) ==
    \E p \in P :
        \E r \in {BackendLs(backend, World, Ctx(now), p)} :
            /\ last' = Record("ls_info", p, <<>>, <<>>, <<>>, FALSE, 0, 0, r.raised,
                              NoResult, NoRead, IF r.raised THEN <<>> ELSE r.infos, r.calls,
                              TRUE, files)
            /\ UNCHANGED <<backend, files, store, disk, assistant_id, now>>

\* a batch upload: on a router the grouped upload, on a leaf backend its own;
\* the clock advances when the storage has changed.  The call recorded has
\* responses None when it raised or returned None, else Some(list)
Upload(F) ==
    \E fs \in F :
        \E r \in {IF backend.kind = "composite"
                  THEN CompositeBackend_upload_files(backend, World, Ctx(now + 1), fs)
                  ELSE The({ [raised |-> q.raised, w |-> q.w, calls |-> <<>>,
                              responses |-> IF q.responses = None THEN <<>>
                                            ELSE [i \in 1..Len(q.responses[1]) |->
                                                      Some(q.responses[1][i])],
                              none |-> q.responses = None]
                             : q \in {LeafBatch(backend, World, Ctx(now + 1),
                                                "upload_files", fs)} })} :
            /\ r.w # World => now < MaxClock
            /\ files' = r.w.files /\ store' = r.w.store /\ disk' = r.w.disk
            /\ now' = IF r.w # World THEN now + 1 ELSE now
            /\ last' = [op |-> "upload_files", items |-> fs, raised |-> r.raised,
                        responses |-> IF r.raised \/ r.none THEN None
                                      ELSE Some([i \in 1..Len(r.responses) |->
                                                    r.responses[i][1]]),
                        calls |-> r.calls]
            /\ UNCHANGED <<backend, assistant_id>>

Download(P) ==
    \E ps \in P :
        \E r \in {IF backend.kind = "composite"
                  THEN CompositeBackend_download_files(backend, World, Ctx(now), ps)
                  ELSE The({ [raised |-> q.raised, w |-> q.w, calls |-> <<>>,
                              responses |-> IF q.responses = None THEN <<>>
                                            ELSE [i \in 1..Len(q.responses[1]) |->
                                                      Some(q.responses[1][i])],
                              none |-> q.responses = None]
                             : q \in {LeafBatch(backend, World, Ctx(now),
                                                "download_files", ps)} })} :
            /\ last' = [op |-> "download_files", items |-> ps, raised |-> r.raised,
                        responses |-> IF r.raised \/ r.none THEN None
                                      ELSE Some([i \in 1..Len(r.responses) |->
                                                    r.responses[i][1]]),
                        calls |-> r.calls]
            /\ UNCHANGED <<backend, files, store, disk, assistant_id, now>>

Grep(Patterns, P) ==
    \E pattern \in Patterns, path \in P :
        \E r \in {IF backend.kind = "composite"
                  THEN CompositeBackend_grep_raw(backend, World, Ctx(now), pattern, path)
                  ELSE The({ [error |-> q.error, matches |-> q.matches, calls |-> <<>>]
                             : q \in {LeafGrep(backend, World, Ctx(now), pattern, path)} })} :
            /\ last' = [op |-> "grep_raw", pattern |-> pattern, path |-> path,
                        error |-> r.error, matches |-> r.matches, calls |-> r.calls]
            /\ UNCHANGED <<backend, files, store, disk, assistant_id, now>>

\* a call of glob_info on the in-memory backend
Glob(Patterns, P) ==
    \E pattern \in Patterns, path \in P :
        /\ backend = Leaf("state")
        /\ last' = [op |-> "glob_info", pattern |-> pattern, path |-> path,
                    infos |-> StateBackend_glob_info(files, pattern, path)]
        /\ UNCHANGED <<backend, files, store, disk, assistant_id, now>>

\* The tools of the middleware on the backend held: the path check where
\* the tool has one, then the backend call, then (write_file, edit_file)
\* the state update the tool returns.  calls are the backend calls made,
\* out what the backend returned; the formatting and truncation of the
\* tool's text are left out.
ToolCall(op, path) == [op |-> op, path |-> path]

ToolLs(P) ==
    \E p \in P :
        \E v \in {Tool_validate_path(p)} :
            /\ last' = [op |-> "ls", path |-> p, raised |-> v = None,
                        calls |-> IF v = None THEN <<>> ELSE <<ToolCall("ls_info", v[1])>>,
                        out |-> IF v = None THEN <<>>
                                ELSE BackendLs(backend, World, Ctx(now), v[1]).infos]
            /\ UNCHANGED <<backend, files, store, disk, assistant_id, now>>

ToolRead(P, Limits) ==
    \E p \in P, limit \in Limits :
        \E v \in {Tool_validate_path(p)} :
            /\ last' = [op |-> "read_file", path |-> p, raised |-> v = None,
                        calls |-> IF v = None THEN <<>> ELSE <<ToolCall("read", v[1])>>,
                        out |-> IF v = None THEN NoRead
                                ELSE BackendRead(backend, World, Ctx(now), v[1], 0,
                                                 limit).res]
            /\ UNCHANGED <<backend, files, store, disk, assistant_id, now>>

ToolWrite(P, C) ==
    \E p \in P, c \in C :
        \E v \in {Tool_validate_path(p)} :
            \E r \in {IF v = None THEN NoAttribute(World)
                      ELSE BackendWrite(backend, World, Ctx(now + 1), v[1], c)} :
                \E w \in {MergeDelta(r.w, r.raised, r.res)} :
                    /\ Succeeds(r) => now < MaxClock
                    /\ files' = w.files /\ store' = w.store /\ disk' = w.disk
                    /\ now' = IF Succeeds(r) THEN now + 1 ELSE now
                    /\ last' = [op |-> "write_file", path |-> p, raised |-> r.raised,
                                calls |-> IF v = None THEN <<>>
                                          ELSE <<ToolCall("write", v[1])>>,
                                out |-> r.res]
                    /\ UNCHANGED <<backend, assistant_id>>

ToolEdit(P, O, N) ==
    \E p \in P, old \in O, new \in N :
        \E v \in {Tool_validate_path(p)} :
            \E r \in {IF v = None THEN NoAttribute(World)
                      ELSE BackendEdit(backend, World, Ctx(now + 1), v[1], old, new, FALSE)} :
                \E w \in {MergeDelta(r.w, r.raised, r.res)} :
                    /\ Succeeds(r) => now < MaxClock
                    /\ files' = w.files /\ store' = w.store /\ disk' = w.disk
                    /\ now' = IF Succeeds(r) THEN now + 1 ELSE now
                    /\ last' = [op |-> "edit_file", path |-> p, raised |-> r.raised,
                                calls |-> IF v = None THEN <<>>
                                          ELSE <<ToolCall("edit", v[1])>>,
                                out |-> r.res]
                    /\ UNCHANGED <<backend, assistant_id>>

ToolGlob(Patterns, P) ==
    \E pattern \in Patterns, p \in P :
        /\ backend = Leaf("state")
        /\ last' = [op |-> "glob", path |-> p, raised |-> FALSE,
                    calls |-> <<ToolCall("glob_info", p)>>,
                    out |-> StateBackend_glob_info(files, pattern, p)]
        /\ UNCHANGED <<backend, files, store, disk, assistant_id, now>>

ToolGrep(Patterns, P) ==
    \E pattern \in Patterns, p \in P :
        /\ last' = [op |-> "grep", path |-> p, raised |-> FALSE,
                    calls |-> <<ToolCall("grep_raw", p)>>,
                    out |-> LeafGrep(backend, World, Ctx(now), pattern, Some(p))]
        /\ UNCHANGED <<backend, files, store, disk, assistant_id, now>>

\* Two write calls in flight on the backend held, for the path and the
\* contents recorded in last; pc is the position of each call (check, store,
\* done), order the steps taken so far.

\* call i tests whether the path exists
RaceCheck(i) ==
    /\ last.op = "race" /\ last.pc[i] = "check"
    /\ \E e \in {WriteExists(backend, World, Ctx(now), last.path)} :
          last' = [last EXCEPT
                      !.pc[i] = IF e.raised \/ e.exists THEN "done" ELSE "store",
                      !.raised[i] = e.raised,
                      !.res[i] = IF e.exists THEN WriteResult(Some(ErrExists), None, None)
                                 ELSE @,
                      !.order = Append(@, [call |-> i, step |-> "check"])]
    /\ UNCHANGED <<backend, files, store, disk, assistant_id, now>>

\* call i, having found nothing, stores its content and returns
RaceStore(i) ==
    /\ last.op = "race" /\ last.pc[i] = "store"
    /\ \E r \in {WriteStore(backend, World, Ctx(now + 1), last.path, last.content[i])} :
          /\ files' = r.w.files /\ store' = r.w.store /\ disk' = r.w.disk
          /\ last' = [last EXCEPT !.pc[i] = "done", !.res[i] = r.res,
                                  !.order = Append(@, [call |-> i, step |-> "store"])]
    /\ now' = now + 1
    /\ UNCHANGED <<backend, assistant_id>>

\* a call of execute on the backend held, with what the capability check of
\* the callers says about that backend; a backend whose class has no
\* execute raises AttributeError
Execute(Commands) ==
    \E command \in Commands :
        \E r \in {IF backend.kind = "composite" THEN CompositeBackend_execute(backend, command)
                  ELSE IF _supports_execution(backend)
                       THEN [raised |-> FALSE, exc |-> "",
                             res |-> Some(ExecuteResponse(command)), calls |-> <<>>]
                       ELSE [raised |-> TRUE, exc |-> "AttributeError", res |-> None,
                             calls |-> <<>>]} :
            /\ last' = [op |-> "execute", command |-> command, raised |-> r.raised,
                        exc |-> r.exc, res |-> r.res, calls |-> r.calls,
                        supported |-> _supports_execution(backend)]
            /\ UNCHANGED <<backend, files, store, disk, assistant_id, now>>

(***************************************************************************)
(* The system: a caller working on one backend.                            *)
(***************************************************************************)

ROOT == <<<<"r">>>>
OUTSIDE == <<<<"o">>>>

\* a disk with the backend's root directory /r, a directory /o outside it
\* holding a file, and in the root a link l to the outside directory
Disk0 ==
    LET nodes == {<<>>, ROOT, OUTSIDE, OUTSIDE \o <<<<"x">>>>, ROOT \o <<<<"l">>>>}
    IN  [q \in nodes |->
            IF q = OUTSIDE \o <<<<"x">>>> THEN FileNode(<<"a">>, 0)
            ELSE IF q = ROOT \o <<<<"l">>>> THEN LinkNode(OUTSIDE)
                 ELSE DirNode]

Route(prefix, b) == [prefix |-> prefix, backend |-> b]

M == <<"/", "m", "/">>
MN == <<"/", "m", "/", "n", "/">>

Backends ==
    { Leaf("state"), Leaf("store"), FsBackend(ROOT, TRUE),
      Composite(Leaf("state"), <<Route(M, Leaf("store"))>>),
      Composite(Leaf("state"), <<Route(M, Leaf("state"))>>),
      Composite(Leaf("store"), <<Route(M, FsBackend(ROOT, TRUE)), Route(MN, Leaf("state"))>>) }

Paths == { <<"/", "x">>, <<"/", "m", "/", "x">>, <<"/", "m", "/", "n", "/", "x">> }
Dirs == { <<"/">>, <<"/", "m", "/">>, <<"/", "m">>, <<"/", "m", "2", "/">> }
Contents == { <<"a">>, <<"a", "a">> }
Olds == { <<"a">>, <<"b">> }
News == { <<"b">> }
DEFAULT_LIMIT == 2000

Init ==
    /\ backend \in Backends
    /\ files = EmptyDict
    /\ store = EmptyDict
    /\ disk = Disk0
    /\ assistant_id = None
    /\ now = 0
    /\ last = NoCall

Next ==
    \/ Write(Paths, Contents, {TRUE})
    \/ Edit(Paths, Olds, News, {TRUE})
    \/ Read(Paths, {0}, {DEFAULT_LIMIT})
    \/ Ls(Dirs)

Spec == Init /\ [][Next]_vars

(***************************************************************************)
(* Texts: a caller writing, editing and reading one file on a leaf         *)
(* backend, over contents with blank text, line breaks and repeats.        *)
(***************************************************************************)

TextPaths == { <<"/", "x">> }
TextContents ==
    { <<>>, <<" ">>, <<"a">>, <<"a", "a", "a">>, <<"a", NL, "b">>, <<"b", NL>>,
      <<"a", CR, NL, "b">> }
TextOlds == { <<"a">>, <<"a", "a">>, <<"x">> }
TextNews == { <<"b">>, <<"a", "a">> }
TextBackends == { Leaf("state"), Leaf("store"), FsBackend(ROOT, TRUE) }

InitText ==
    /\ backend \in TextBackends
    /\ files = EmptyDict
    /\ store = EmptyDict
    /\ disk = Disk0
    /\ assistant_id \in {None, Some("k")}
    /\ now = 0
    /\ last = NoCall

NextText ==
    \/ Write(TextPaths, TextContents, {TRUE})
    \/ Edit(TextPaths, TextOlds, TextNews, {TRUE})
    \/ Read(TextPaths, {0}, {DEFAULT_LIMIT})

SpecText == InitText /\ [][NextText]_vars

(***************************************************************************)
(* Sandbox: a caller working on a filesystem backend in virtual mode with  *)
(* paths that try to leave the root.                                       *)
(***************************************************************************)

SandboxPaths ==
    { <<"/", "x">>, <<"x">>, <<"/", "a", "/", ".", ".", "/", "x">>,
      <<"/", "a", "/", ".", ".", "/", ".", ".", "/", "o", "/", "x">>,
      <<"~", "/", "x">>, <<"~">>, <<"/", "l", "/", "x">>, <<"/", "l">>, <<"/">> }

InitSandbox ==
    /\ backend = FsBackend(ROOT, TRUE)
    /\ files = EmptyDict
    /\ store = EmptyDict
    /\ disk = Disk0
    /\ assistant_id = None
    /\ now = 0
    /\ last = NoCall

NextSandbox ==
    \/ Write(SandboxPaths, Contents, {TRUE})
    \/ Edit(SandboxPaths, Olds, News, {TRUE})
    \/ Read(SandboxPaths, {0}, {DEFAULT_LIMIT})
    \/ Ls(SandboxPaths)

SpecSandbox == InitSandbox /\ [][NextSandbox]_vars

(***************************************************************************)
(* Operations: a caller uploading, downloading, searching and executing,   *)
(* besides writing and editing, on the in-memory and store backends, on a  *)
(* sandbox and on routers over them.  The store holds a value at /b that   *)
(* does not convert; the state of the default backend's runtime may be     *)
(* unusable during a write or an edit.                                     *)
(***************************************************************************)

OpsBackends ==
    { Leaf("state"), Leaf("store"), Sandbox(Leaf("state")),
      Composite(Leaf("state"), <<Route(M, Leaf("store"))>>),
      Composite(Leaf("store"), <<Route(M, Leaf("state"))>>),
      Composite(Leaf("store"), <<Route(M, Leaf("store"))>>),
      Composite(Sandbox(Leaf("state")), <<Route(M, Leaf("store")), Route(MN, Leaf("state"))>>) }

BAD == <<"/", "b">>

\* the sequences of at most MaxBatch elements of a set
MaxBatch == 2
Lists(S) == UNION { [1..n -> S] : n \in 0..MaxBatch }

InitOps ==
    /\ backend \in OpsBackends
    /\ files = EmptyDict
    /\ store = DictSet(EmptyDict, <<_get_namespace(None), BAD>>,
                       [content |-> None, created_at |-> Some(0), modified_at |-> Some(0)])
    /\ disk = Disk0
    /\ assistant_id = None
    /\ now = 0
    /\ last = NoCall

NextOps ==
    \/ Write({<<"/", "x">>, <<"/", "m", "/", "x">>, <<"/", "m", "/", "n", "/", "x">>},
             {<<"a">>}, BOOLEAN)
    \/ Edit({<<"/", "m", "/", "x">>}, {<<"a">>}, {<<"b">>}, BOOLEAN)
    \/ Upload(Lists({ [path |-> <<"/", "x">>, content |-> Some(<<"a">>)],
                      [path |-> <<"/", "m", "/", "x">>, content |-> Some(<<"a">>)],
                      [path |-> <<"/", "x">>, content |-> None] }))
    \/ Download(Lists({<<"/", "x">>, <<"/", "m", "/", "x">>, BAD}))
    \/ Grep({<<"a">>, <<"(">>},
            {None, Some(<<"/", "m", "/">>), Some(<<"/", "o", "/">>), Some(<<"/", "m", "2", "/">>)})
    \/ Execute({"ls", "ls /m/x"})

SpecOps == InitOps /\ [][NextOps]_vars

(***************************************************************************)
(* Merge: the session state under the merge rule, applied to deltas with   *)
(* records and tombstones, on a state that is present or still None.       *)
(***************************************************************************)

\* the deltas over two paths: each path absent, a tombstone, or a record
Deltas ==
    UNION { [K -> {None, Some(create_file_data(<<"a">>, 1)), Some(create_file_data(<<"b">>, 2))}]
            : K \in SUBSET {<<"/", "x">>, <<"/", "y">>} }

Merge(R) ==
    \E right \in R, left \in {None, Some(files)} :
        /\ files' = _file_data_reducer(left, right)
        /\ last' = [op |-> "merge", left |-> left, right |-> right]
        /\ UNCHANGED <<backend, store, disk, assistant_id, now>>

SpecMerge == InitSandbox /\ [][Merge(Deltas)]_vars

(***************************************************************************)
(* Async: a caller using the asynchronous methods of the backend it holds. *)
(***************************************************************************)

AWrite(P, C) ==
    \E p \in P, c \in C :
        \E r \in {awrite(backend, World, Ctx(now + 1), p, c)} :
            \E w \in {MergeDelta(r.w, r.raised, r.res)} :
                /\ Succeeds(r) => now < MaxClock
                /\ files' = w.files /\ store' = w.store /\ disk' = w.disk
                /\ now' = IF Succeeds(r) THEN now + 1 ELSE now
                /\ last' = [op |-> "awrite", path |-> p, content |-> c, raised |-> r.raised,
                            res |-> IF r.raised THEN NoResult ELSE r.res]
                /\ UNCHANGED <<backend, assistant_id>>

ARead(P, Offsets, Limits) ==
    \E p \in P, offset \in Offsets, limit \in Limits :
        \E r \in {aread(backend, World, Ctx(now), p, offset, limit)} :
            /\ last' = [op |-> "aread", path |-> p, offset |-> offset, limit |-> limit,
                        raised |-> r.raised, read |-> IF r.raised THEN NoRead ELSE r.res]
            /\ UNCHANGED <<backend, files, store, disk, assistant_id, now>>

ALs(P) ==
    \E p \in P :
        \E r \in {als_info(backend, World, Ctx(now), p)} :
            /\ last' = [op |-> "als_info", path |-> p, raised |-> r.raised,
                        infos |-> IF r.raised THEN <<>> ELSE r.infos]
            /\ UNCHANGED <<backend, files, store, disk, assistant_id, now>>

NextAsync ==
    \/ AWrite(Paths, Contents)
    \/ ARead(Paths, {0}, {DEFAULT_LIMIT})
    \/ ALs(Dirs)
    \/ Write(Paths, Contents, {TRUE})

SpecAsync == Init /\ [][NextAsync]_vars

(***************************************************************************)
(* Search: one paginated search over a store that holds any subset of      *)
(* MaxItems keys in the namespace, and one item of another namespace, with *)
(* a page size up to MaxPage.  The store does not change during the scan.  *)
(***************************************************************************)

MaxItems == 5
MaxPage == 3

SearchKeys == { <<"/", SubSeq(<<"a", "b", "d", "k", "l", "m", "n", "o">>, i, i)[1]>>
                : i \in 1..MaxItems }

InitSearch ==
    /\ backend = Leaf("store")
    /\ files = EmptyDict
    /\ \E K \in SUBSET SearchKeys :
          store = [nk \in ({_get_namespace(None)} \X K)
                          \cup {<<_get_namespace(Some("k")), <<"/", "x">>>>} |->
                      _convert_file_data_to_store_value(create_file_data(<<"a">>, 0))]
    /\ disk = Disk0
    /\ assistant_id = None
    /\ now = 0
    /\ \E page_size \in 1..MaxPage :
          last = [op |-> "search", page_size |-> page_size, offset |-> 0,
                  all_items |-> <<>>, requests |-> <<>>, done |-> FALSE]

\* one pass of the while loop
SearchPage ==
    /\ last.op = "search" /\ ~last.done
    /\ last' = [op |-> "search", page_size |-> last.page_size] @@
               SearchPass(store, _get_namespace(assistant_id), last.page_size,
                          [offset |-> last.offset, all_items |-> last.all_items,
                           requests |-> last.requests, done |-> last.done])
    /\ UNCHANGED <<backend, files, store, disk, assistant_id, now>>

SpecSearch == InitSearch /\ [][SearchPage]_vars /\ WF_vars(SearchPage)

(***************************************************************************)
(* Glob: a caller writing, editing and globbing on the in-memory backend,  *)
(* over the files /a.py, /b.txt and /sub/c.py; /b.txt may be there from    *)
(* the start.                                                              *)
(***************************************************************************)

A_PY == <<"/", "a", ".", "p", "y">>
B_TXT == <<"/", "b", ".", "t", "x", "t">>
SUB_C_PY == <<"/", "s", "u", "b", "/", "c", ".", "p", "y">>

GlobPatterns ==
    { <<"*", ".", "p", "y">>, <<"*">>, <<"*", "*">>, <<"*", "*", "/", "*", ".", "p", "y">>,
      <<"*", "/", "*", ".", "p", "y">>, <<"s", "u", "b", "/", "*", ".", "p", "y">> }

InitGlob ==
    /\ backend = Leaf("state")
    /\ files \in {EmptyDict, DictSet(EmptyDict, B_TXT, create_file_data(<<"a">>, 0))}
    /\ store = EmptyDict
    /\ disk = Disk0
    /\ assistant_id = None
    /\ now = 0
    /\ last = NoCall

NextGlob ==
    \/ Write({A_PY, B_TXT, SUB_C_PY}, {<<"a">>}, {TRUE})
    \/ Edit({A_PY, B_TXT, SUB_C_PY}, {<<"a">>}, {<<"b">>}, {TRUE})
    \/ Glob(GlobPatterns, {<<"/">>, <<"/", "s", "u", "b">>, <<"/", "s", "u", "b", "/">>})

SpecGlob == InitGlob /\ [][NextGlob]_vars

(***************************************************************************)
(* Tools: a model calling the file tools on the in-memory backend with     *)
(* plain paths, paths to normalize, a drive-letter path, paths with a      *)
(* parent segment and a home path.                                         *)
(***************************************************************************)

ToolPaths ==
    { <<"/", "x">>, <<"x">>, <<"/", "a", "/", ".", "/", "x">>, <<"C", ":", "/", "x">>,
      <<".", ".", "/", "x">>, <<"/", "a", "/", ".", ".", "/", "x">>, <<"~", "/", "x">> }

InitTools ==
    /\ backend = Leaf("state")
    /\ files = EmptyDict
    /\ store = EmptyDict
    /\ disk = Disk0
    /\ assistant_id = None
    /\ now = 0
    /\ last = NoCall

NextTools ==
    \/ ToolLs(ToolPaths)
    \/ ToolRead(ToolPaths, {DEFAULT_LIMIT})
    \/ ToolWrite(ToolPaths, {<<"a">>, <<"b">>})
    \/ ToolEdit(ToolPaths, {<<"a">>}, {<<"b">>})
    \/ ToolGlob({<<"*">>}, ToolPaths)
    \/ ToolGrep({<<"a">>}, ToolPaths)

SpecTools == InitTools /\ [][NextTools]_vars

(***************************************************************************)
(* Links: a caller reading, writing and editing on a filesystem backend,   *)
(* in virtual mode and not, whose root holds a file t, a link l to it and  *)
(* a link d to a path that does not exist.                                 *)
(***************************************************************************)

DiskLinks ==
    LET nodes == {<<>>, ROOT, ROOT \o <<<<"t">>>>, ROOT \o <<<<"l">>>>, ROOT \o <<<<"d">>>>}
    IN  [q \in nodes |->
            IF q = ROOT \o <<<<"t">>>> THEN FileNode(<<"a">>, 0)
            ELSE IF q = ROOT \o <<<<"l">>>> THEN LinkNode(ROOT \o <<<<"t">>>>)
                 ELSE IF q = ROOT \o <<<<"d">>>> THEN LinkNode(ROOT \o <<<<"n">>>>)
                      ELSE DirNode]

LinkPaths ==
    { <<"/", "t">>, <<"/", "l">>, <<"/", "d">>, <<"l">>,
      <<"/", "r", "/", "t">>, <<"/", "r", "/", "l">>, <<"/", "r", "/", "d">> }

InitLinks ==
    /\ backend \in {FsBackend(ROOT, TRUE), FsBackend(ROOT, FALSE)}
    /\ files = EmptyDict
    /\ store = EmptyDict
    /\ disk = DiskLinks
    /\ assistant_id = None
    /\ now = 0
    /\ last = NoCall

NextLinks ==
    \/ Write(LinkPaths, {<<"b">>}, {TRUE})
    \/ Edit(LinkPaths, {<<"a">>, <<"b">>}, {<<"b">>, <<"a">>}, {TRUE})
    \/ Read(LinkPaths, {0}, {DEFAULT_LIMIT})

SpecLinks == InitLinks /\ [][NextLinks]_vars

(***************************************************************************)
(* Race: two concurrent writes to one path that does not exist, on the     *)
(* store backend and on the filesystem backend, under every interleaving   *)
(* of their checks and stores.                                             *)
(***************************************************************************)

InitRace ==
    /\ backend \in {Leaf("store"), FsBackend(ROOT, TRUE), FsBackend(ROOT, FALSE)}
    /\ files = EmptyDict
    /\ store = EmptyDict
    /\ disk = Disk0
    /\ assistant_id = None
    /\ now = 0
    /\ \E p \in {<<"/", "x">>, <<"/", "r", "/", "m", "/", "x">>},
          c1 \in {<<"a">>, <<"b">>}, c2 \in {<<"a">>, <<"b">>} :
          last = [op |-> "race", path |-> p, content |-> <<c1, c2>>,
                  pc |-> <<"check", "check">>, raised |-> <<FALSE, FALSE>>,
                  res |-> <<WriteResult(None, None, None), WriteResult(None, None, None)>>,
                  order |-> <<>>]

NextRace ==
    \/ RaceCheck(1)
    \/ RaceCheck(2)
    \/ RaceStore(1)
    \/ RaceStore(2)

SpecRace == InitRace /\ [][NextRace]_vars

(***************************************************************************)
(* Patch: the middleware that repairs dangling tool calls, applied once to *)
(* any message history of at most MaxMsgs messages.                        *)
(***************************************************************************)

MaxMsgs == 3

\* the ids a tool call can carry
CallIds == {1, 2}

\* a tool call of an AI message
ToolCallOf(id) == [id |-> id, name |-> "ls"]

\* a message: its type, the tool calls of an AI message, the call a tool
\* message answers (None when the message carries none) and, for a patch,
\* the call its text names
Message(type, tool_calls, tool_call_id, content) ==
    [type |-> type, tool_calls |-> tool_calls, tool_call_id |-> tool_call_id,
     content |-> content]

HumanMessage == Message("human", <<>>, None, None)
AIMessage(ids) == Message("ai", [k \in 1..Len(ids) |-> ToolCallOf(ids[k])], None, None)

\* a tool message built with content and tool_call_id
ToolMessage(id) == Message("tool", <<>>, Some(id), None)

\* the patch: a tool message built from its content alone; its text names
\* the tool and the id of the call, no tool_call_id is passed
PatchMessage(tool_call) ==
    Message("tool", <<>>, None, Some(<<tool_call.name, tool_call.id>>))

\* next(m for m in messages[i:] if m.type == "tool" and
\*      m.tool_call_id == tool_call["id"]) is None
Dangling(messages, i, tool_call) ==
    ~ \E j \in i..Len(messages) :
          /\ messages[j].type = "tool"
          /\ messages[j].tool_call_id = Some(tool_call.id)

\* the patches appended after message i, one for each dangling call in the
\* order of the calls
PatchesOf(messages, i) ==
    The({ [k \in 1..Len(d) |-> PatchMessage(d[k])]
          : d \in {SelectSeq(messages[i].tool_calls,
                             LAMBDA c : Dangling(messages, i, c))} })

RECURSIVE PatchedFrom(_, _)
\* the loop over enumerate(messages), from index i on
PatchedFrom(messages, i) ==
    IF i > Len(messages) THEN <<>>
    ELSE <<messages[i]>>
         \o (IF messages[i].type = "ai" THEN PatchesOf(messages, i) ELSE <<>>)
         \o PatchedFrom(messages, i + 1)

\* before_agent: None for an empty history, else the patched list. The
\* constructor of the tool message belongs to the message library: built
\* tells whether it accepts a tool message without tool_call_id or raises.
before_agent(messages, built) ==
    IF Len(messages) = 0 THEN [raised |-> FALSE, result |-> None]
    ELSE IF ~built /\ \E i \in 1..Len(messages) :
                         messages[i].type = "ai" /\ PatchesOf(messages, i) # <<>>
         THEN [raised |-> TRUE, result |-> None]
         ELSE [raised |-> FALSE, result |-> Some(PatchedFrom(messages, 1))]

Messages ==
    {HumanMessage} \cup {ToolMessage(id) : id \in CallIds}
    \cup {AIMessage(ids) : ids \in {<<>>, <<1>>, <<2>>, <<1, 2>>}}

Histories == UNION { [1..n -> Messages] : n \in 0..MaxMsgs }

InitPatch ==
    /\ backend = Leaf("state")
    /\ files = EmptyDict
    /\ store = EmptyDict
    /\ disk = Disk0
    /\ assistant_id = None
    /\ now = 0
    /\ \E h \in Histories : last = [op |-> "history", messages |-> h]

\* the hook runs on the history of the state
BeforeAgent ==
    /\ last.op = "history"
    /\ \E built \in BOOLEAN :
          last' = [op |-> "before_agent", messages |-> last.messages]
                  @@ before_agent(last.messages, built)
    /\ UNCHANGED <<backend, files, store, disk, assistant_id, now>>

SpecPatch == InitPatch /\ [][BeforeAgent]_vars

(***************************************************************************)
(* Tenants: callers with different assistant ids, and callers without one, *)
(* working on the same store through the store backend.                    *)
(***************************************************************************)

\* the next call comes with another config
Switch(Ids) ==
    \E id \in Ids \ {assistant_id} :
        /\ assistant_id' = id
        /\ last' = [op |-> "switch"]
        /\ UNCHANGED <<backend, files, store, disk, now>>

TenantIds == {None, Some("k"), Some(FILESYSTEM)}

InitTenant ==
    /\ backend = Leaf("store")
    /\ files = EmptyDict
    /\ store = EmptyDict
    /\ disk = Disk0
    /\ assistant_id \in TenantIds
    /\ now = 0
    /\ last = NoCall

NextTenant ==
    \/ Switch(TenantIds)
    \/ Write({<<"/", "x">>, <<"/", "y">>}, {<<"a">>}, {TRUE})
    \/ Edit({<<"/", "x">>}, {<<"a">>}, {<<"b">>}, {TRUE})
    \/ Read({<<"/", "x">>}, {0}, {DEFAULT_LIMIT})
    \/ Ls({<<"/">>})
    \/ Upload(Lists({[path |-> <<"/", "x">>, content |-> Some(<<"a">>)]}))
    \/ Download(Lists({<<"/", "x">>}))
    \/ Grep({<<"a">>}, {None})

SpecTenant == InitTenant /\ [][NextTenant]_vars

(***************************************************************************)
(* Properties of the system Spec.                                          *)
(***************************************************************************)

\* the storage after a step
WorldNext == [files |-> files', store |-> store', disk |-> disk']

\* C1: on every backend, a write of a path directly after a successful write
\* of the same path returns the already-exists error, changes nothing in any
\* storage, and a read of the path still returns the first content.
C1_SecondWriteFails ==
    [][ ( /\ last.op = "write" /\ Succeeds(last)
          /\ last'.op = "write" /\ last'.path = last.path )
        => /\ ~last'.raised
           /\ last'.res.error = Some(ErrExists)
           /\ last'.res.path = None /\ last'.res.files_update = None
           /\ WorldNext = World
           /\ BackendRead(backend, WorldNext, Ctx(now'), last.path, 0, DEFAULT_LIMIT).res
                = ReadLines(last.content, 0, DEFAULT_LIMIT) ]_vars

\* a second write with another content was refused and the path still reads
\* as the first content
C1_Witness ==
    /\ last.op = "write" /\ last.res.error = Some(ErrExists)
    /\ last.content = <<"a", "a">>
    /\ BackendRead(backend, World, Ctx(now), last.path, 0, DEFAULT_LIMIT).res
         = ReadLines(<<"a">>, 0, DEFAULT_LIMIT)

\* C5: an edit that returns an error leaves the session state, the store and
\* the disk as they were and carries no path, no delta and no occurrence
\* count; an edit of a path that resolves returns and does not raise.
C5_FailedEditChangesNothing ==
    [][ last'.op = "edit"
        => /\ ~last'.raised
           /\ last'.res.error # None
                => /\ WorldNext = World
                   /\ now' = now
                   /\ last'.res.path = None
                   /\ last'.res.files_update = None
                   /\ last'.res.occurrences = None ]_vars

\* an edit on an existing file failed because the string is absent, the file
\* still holding what was written
C5_Witness ==
    /\ last.op = "edit"
    /\ last.res.error = Some([kind |-> "string_not_found", count |-> 0])
    /\ now = 1
    /\ BackendRead(backend, World, Ctx(now), last.path, 0, DEFAULT_LIMIT).res.kind = "lines"

(***************************************************************************)
(* Properties of the texts, SpecText.                                      *)
(***************************************************************************)

\* C2 as stated: a read from line 0 directly after a successful write of the
\* same path returns the lines of the content written, one row per line,
\* numbered from 1, whatever the content.
C2_ReadReturnsEveryContent ==
    [][ ( /\ last.op = "write" /\ Succeeds(last)
          /\ last'.op = "read" /\ last'.path = last.path /\ last'.offset = 0 )
        => last'.read =
             [kind |-> "lines",
              rows |-> [i \in 1..Len(PySplitLines(last.content)) |->
                           [num |-> i, chunk |-> 0,
                            text |-> PySplitLines(last.content)[i]]]] ]_vars

\* C2: a read from line 0 directly after a successful write of the same path
\* returns the empty-content notice when the content written is empty or
\* all whitespace; otherwise, no line being longer than MAX_LINE_LENGTH, it
\* returns the lines of the content, one row per line, numbered from 1.
C2_ReadReturnsLinesUnlessBlank ==
    [][ ( /\ last.op = "write" /\ Succeeds(last)
          /\ last'.op = "read" /\ last'.path = last.path /\ last'.offset = 0 )
        => IF \A i \in 1..Len(last.content) : last.content[i] \in {" ", "\t", NL, CR}
           THEN last'.read = [kind |-> "empty_warning", rows |-> <<>>]
           ELSE (\A i \in 1..Len(PySplitLines(last.content)) :
                    Len(PySplitLines(last.content)[i]) <= MAX_LINE_LENGTH)
                => last'.read =
                     [kind |-> "lines",
                      rows |-> [i \in 1..Len(PySplitLines(last.content)) |->
                                   [num |-> i, chunk |-> 0,
                                    text |-> PySplitLines(last.content)[i]]]] ]_vars

\* a read returned the two numbered lines of a file
C2_Witness ==
    /\ last.op = "read" /\ now = 1
    /\ last.read = [kind |-> "lines",
                    rows |-> << [num |-> 1, chunk |-> 0, text |-> <<"a">>],
                                [num |-> 2, chunk |-> 0, text |-> <<"b">>] >>]

C4_ReplaceAllReportsCount ==
    [][ ( /\ last'.op = "edit" /\ last'.replace_all
          /\ LeafContent(backend, World, Ctx(now), last'.path) # None )
        => LET text == LeafContent(backend, World, Ctx(now), last'.path)[1]
               old == last'.old
               at == {i \in 1..(Len(text) + 1) : MatchAt(text, old, i)}
               apart == {P \in SUBSET at :
                            \A i, j \in P : i < j => j - i >= Len(old)}
               n == CHOOSE k \in 0..(Len(text) + 1) :
                        /\ \E P \in apart : Cardinality(P) = k
                        /\ \A P \in apart : Cardinality(P) <= k
               after == LeafContent(backend, WorldNext, Ctx(now'), last'.path)
           IN  n >= 1
                 => /\ ~last'.raised
                    /\ last'.res.error = None
                    /\ last'.res.occurrences = Some(n)
                    /\ after = Some(PyReplace(text, old, last'.new))
                    /\ Len(after[1]) = Len(text) + n * (Len(last'.new) - Len(old)) ]_vars

\* an edit with replace_all replaced the three occurrences in a file
C4_Witness ==
    /\ last.op = "edit" /\ last.replace_all
    /\ last.res.occurrences = Some(3)
    /\ LeafContent(backend, World, Ctx(now), last.path) = Some(<<"b", "b", "b">>)

(***************************************************************************)
(* Properties of the sandbox, SpecSandbox.                                 *)
(***************************************************************************)

\* C6: in virtual mode the resolution of the path of every call either
\* raises or returns a path inside the root, and it raises, as the call
\* does, for a path with a ".." segment, a path that starts with "~" and a
\* path that a link takes outside the root.
C6_ResolutionFailsClosed ==
    last.op # "none"
    => LET r == _resolve_path(backend, disk, last.path)
           segs == PySplit(last.path, SEP)
           unsafe == \/ \E i \in 1..Len(segs) : segs[i] = <<".", ".">>
                     \/ StartsWith(last.path, <<"~">>)
                     \/ ~IsRelativeTo(Resolve(disk, backend.cwd \o PathParts(last.path)),
                                      backend.cwd)
       IN  /\ r.raised \/ IsRelativeTo(r.full, backend.cwd)
           /\ unsafe => r.raised /\ last.raised

(***************************************************************************)
(* Properties of the router, in Spec.                                      *)
(***************************************************************************)

\* the call the router made for the last operation went to a route backend
Routed1 ==
    /\ backend.kind = "composite"
    /\ Len(last.calls) = 1
    /\ last.calls[1].route # DEFAULT

\* the backend registered under the route of the router's call
RouteBackend ==
    (CHOOSE r \in {backend.routes[i] : i \in 1..Len(backend.routes)} :
        r.prefix = last.calls[1].route).backend

C8_LongestPrefixForEveryOperation ==
    (backend.kind = "composite" /\ ~last.raised)
    => \A k \in 1..Len(last.calls) :
          LET hit == {i \in 1..Len(backend.routes) :
                         \/ StartsWith(last.path, backend.routes[i].prefix)
                         \/ last.path \o <<SEP>> = backend.routes[i].prefix}
          IN  IF hit = {}
              THEN /\ last.calls[k].route = DEFAULT
                   /\ last.calls[k].path = last.path
              ELSE /\ last.calls[k].route \in {backend.routes[i].prefix : i \in hit}
                   /\ \A i \in hit : Len(backend.routes[i].prefix) <= Len(last.calls[k].route)
                   /\ last.calls[k].path
                        = <<SEP>> \o Slice(last.path, Len(last.calls[k].route))

\* C9: every path in the result of an operation the router sent to a route
\* is the route prefix followed by the inner path: the path of a write or
\* edit result is the path the caller gave, and every entry of a listing
\* lies under the route prefix.
C9_ResultPathsAreRouterPaths ==
    (Routed1 /\ ~last.raised)
    => /\ (last.op \in {"write", "edit"} /\ last.res.path # None)
            => last.res.path = Some(last.path)
       /\ last.op = "ls_info"
            => \A i \in 1..Len(last.infos) :
                  StartsWith(last.infos[i].path, last.calls[1].route)

\* C10: the router's listing of "/" is the default backend's listing of "/"
\* together with one directory entry of size 0 per route, nothing else,
\* in ascending order of path, and only the default backend is called.
C10_RootListing ==
    (backend.kind = "composite" /\ last.op = "ls_info" /\ last.path = <<SEP>> /\ ~last.raised)
    => LET own == LeafLs(backend.default, World, Ctx(now), <<SEP>>).infos
           synth == [i \in 1..Len(backend.routes) |->
                        FileInfo(backend.routes[i].prefix, TRUE, 0, None)]
           all == own \o synth
       IN  /\ last.calls = <<Call(DEFAULT, "ls_info", <<SEP>>)>>
           /\ Len(last.infos) = Len(all)
           /\ \A e \in {all[i] : i \in 1..Len(all)} :
                 Cardinality({i \in 1..Len(all) : all[i] = e})
                   = Cardinality({i \in 1..Len(last.infos) : last.infos[i] = e})
           /\ \A i \in 1..(Len(last.infos) - 1) :
                 ~StrLess(last.infos[i + 1].path, last.infos[i].path)

\* the router listed "/" with a file of the default backend after the
\* entries of its two routes
C10_Witness ==
    /\ backend.kind = "composite" /\ Len(backend.routes) = 2
    /\ last.op = "ls_info" /\ last.path = <<SEP>>
    /\ Len(last.infos) = 3
    /\ last.infos[1].path = M /\ last.infos[2].path = MN
    /\ last.infos[3].path = <<"/", "x">> /\ ~last.infos[3].is_dir

(***************************************************************************)
(* Properties of the operations (SpecOps).                                 *)
(***************************************************************************)

\* the path of the element i of the input of the batch call recorded in c
ItemPath(c, i) == IF c.op = "upload_files" THEN c.items[i].path ELSE c.items[i]

\* C11: a batch call on a router returns; its result has the length of the
\* input and result i carries the path of input i as it was given; every
\* route (or the default backend) that some element selects is called once,
\* with the elements routed to it in input order under their stripped
\* paths, and no other backend is called.
C11_GroupedBatches ==
    [][( /\ last'.op \in {"upload_files", "download_files"}
         /\ backend.kind = "composite" )
        => /\ ~last'.raised
           /\ last'.responses # None
           /\ Len(last'.responses[1]) = Len(last'.items)
           /\ \A i \in 1..Len(last'.items) :
                  last'.responses[1][i].path = ItemPath(last', i)
           /\ \A g \in {DEFAULT} \cup {backend.routes[n].prefix : n \in 1..Len(backend.routes)} :
                  LET mine == {i \in 1..Len(last'.items) :
                                 _get_backend_and_key(backend, ItemPath(last', i)).route = g}
                      made == {k \in 1..Len(last'.calls) : last'.calls[k].route = g}
                  IN  /\ Cardinality(made) = IF mine = {} THEN 0 ELSE 1
                      /\ \A k \in made :
                             /\ Len(last'.calls[k].path) = Cardinality(mine)
                             /\ \A j \in 1..Cardinality(mine) :
                                    (IF last'.op = "upload_files"
                                     THEN last'.calls[k].path[j].path
                                     ELSE last'.calls[k].path[j])
                                    = _get_backend_and_key(backend,
                                          ItemPath(last', Ascending(mine)[j])).key
    ]_vars

\* C12: a batch call on any backend does not raise and returns one result
\* per element of the input, in input order, each under the path of its
\* element.
C12_BatchNeverAborts ==
    [][last'.op \in {"upload_files", "download_files"}
        => /\ ~last'.raised
           /\ last'.responses # None
           /\ Len(last'.responses[1]) = Len(last'.items)
           /\ \A i \in 1..Len(last'.items) :
                  /\ last'.responses[1][i].path = ItemPath(last', i)
                  /\ last'.responses[1][i].error \in
                         {None, Some("file_not_found"), Some("permission_denied"),
                          Some("is_directory"), Some("invalid_path")}
    ]_vars

\* C13: every match of a search called with a path lies in the subtree of
\* that path.
C13_MatchesInsideSubtree ==
    [][( /\ last'.op = "grep_raw"
         /\ last'.path # None
         /\ last'.error = None )
        => \A k \in 1..Len(last'.matches) :
               StartsWith(last'.matches[k].path, _validate_path(last'.path)[1])
    ]_vars

\* C14: a search on a router without a path asks the default backend first
\* and then the routes in the order of the routes mapping, each at "/"; when
\* a backend answers with an error the router returns that error with no
\* matches and has asked no backend after it; otherwise it returns the
\* matches of the default backend followed by those of each route under the
\* route's prefix.
C14_AggregateOrShortCircuit ==
    [][( /\ last'.op = "grep_raw"
         /\ last'.path = None
         /\ backend.kind = "composite" )
        => LET n == Len(backend.routes)
               own == LeafGrep(backend.default, World, Ctx(now), last'.pattern, None)
               of(i) == LeafGrep(backend.routes[i].backend, World, Ctx(now), last'.pattern,
                                 Some(<<SEP>>))
               asked == Len(last'.calls) - 1
           IN  /\ Len(last'.calls) >= 1
               /\ last'.calls[1] = Call(DEFAULT, "grep_raw", None)
               /\ asked <= n
               /\ \A i \in 1..asked :
                      last'.calls[i + 1] = Call(backend.routes[i].prefix, "grep_raw", Some(<<SEP>>))
               /\ IF own.error # None
                  THEN asked = 0 /\ last'.error = own.error /\ last'.matches = <<>>
                  ELSE IF \E i \in 1..n : of(i).error # None
                       THEN /\ of(asked).error # None
                            /\ \A i \in 1..(asked - 1) : of(i).error = None
                            /\ last'.error = of(asked).error
                            /\ last'.matches = <<>>
                       ELSE /\ asked = n
                            /\ last'.error = None
                            /\ Len(last'.matches)
                                   >= Len(own.matches)
                            /\ SubSeq(last'.matches, 1, Len(own.matches)) = own.matches
                            /\ \A i \in 1..n : \A k \in 1..Len(of(i).matches) :
                                   \E m \in 1..Len(last'.matches) :
                                       /\ m > Len(own.matches)
                                       /\ last'.matches[m].path
                                              = Front(backend.routes[i].prefix)
                                                    \o of(i).matches[k].path
                                       /\ last'.matches[m].text = of(i).matches[k].text
                            /\ Len(last'.matches)
                                   = Len(own.matches)
                                     + Len(ConcatAll([i \in 1..n |-> of(i).matches]))
    ]_vars

\* a router was searched without a path with a pattern that does not
\* compile: it returned the default backend's error and asked no route
C14_Witness ==
    /\ last.op = "grep_raw"
    /\ last.path = None
    /\ backend.kind = "composite"
    /\ last.error # None
    /\ Len(last.calls) = 1

\* C15: execute on a router does not look at the routes: when the default
\* backend implements the execution protocol the router calls it once with
\* the command and returns its response, whatever path the command names;
\* otherwise it raises the not-supported failure and calls no backend.
C15_ExecuteGoesToDefault ==
    [][( /\ last'.op = "execute"
         /\ backend.kind = "composite" )
        => IF "exec" \in DOMAIN backend.default
           THEN /\ ~last'.raised
                /\ last'.calls = <<Call(DEFAULT, "execute", last'.command)>>
                /\ last'.res = Some(ExecuteResponse(last'.command))
           ELSE /\ last'.raised
                /\ last'.exc = "NotImplementedError"
                /\ last'.calls = <<>>
    ]_vars

\* a command that names a routed path was executed on a router whose default
\* backend is a sandbox
C15_Witness ==
    /\ last.op = "execute"
    /\ backend.kind = "composite"
    /\ last.command = "ls /m/x"
    /\ ~last.raised
    /\ last.calls = <<Call(DEFAULT, "execute", "ls /m/x")>>

\* C16: the capability check answers TRUE for a backend exactly when a call
\* of execute on that backend goes through.
C16_CheckAgreesWithExecute ==
    [][last'.op = "execute" => (last'.supported <=> ~last'.raised)]_vars

\* C17: when the state of the default backend's runtime is unusable, a write
\* or an edit through a router raises nothing and returns the result of the
\* backend the path is routed to.
C17_MirrorFailureIsSwallowed ==
    [][( /\ last'.op \in {"write", "edit"}
         /\ backend.kind = "composite"
         /\ ~last'.state_ok )
        => LET t == _get_backend_and_key(backend, last'.path)
           IN  /\ ~last'.raised
               /\ last'.res =
                      IF last'.op = "write"
                      THEN LeafWrite(t.backend, World, Ctx(now + 1), t.key, last'.content).res
                      ELSE LeafEdit(t.backend, World, Ctx(now + 1), t.key, last'.old,
                                    last'.new, last'.replace_all).res
    ]_vars

\* a write through a router returned a delta that the router had to mirror
\* into the runtime of its default backend while that state was unusable
C17_Witness ==
    /\ last.op = "write"
    /\ backend.kind = "composite"
    /\ HasRuntime(backend.default)
    /\ ~last.state_ok
    /\ last.res.error = None
    /\ last.res.files_update # None

\* C18: a write or an edit through a router whose default backend is not
\* the in-memory backend leaves the session's files, as the runtime of the
\* default backend holds them, as they were.
C18_MirrorOnlyForInMemoryDefault ==
    [][( /\ last'.op \in {"write", "edit"}
         /\ backend.kind = "composite"
         /\ backend.default.kind # "state" )
        => last'.mirrored = files
    ]_vars

\* C19: a step leaves the created_at of every record that exists before and
\* after it as it was and never lowers its modified_at; a successful write
\* or edit stamps the record of its path with the time of the call.
C19_CreatedAtNeverChanges ==
    [][/\ \A k \in DOMAIN files \cap DOMAIN files' :
              /\ files'[k].created_at = files[k].created_at
              /\ files'[k].modified_at >= files[k].modified_at
       /\ \A k \in DOMAIN store \cap DOMAIN store' :
              ( /\ _convert_store_item_to_file_data(store[k]) # None
                /\ _convert_store_item_to_file_data(store'[k]) # None )
              => /\ store'[k].created_at = store[k].created_at
                 /\ store'[k].modified_at[1] >= store[k].modified_at[1]
       /\ \A k \in DOMAIN files' : files'[k].created_at <= files'[k].modified_at
       /\ ( /\ last'.op \in {"write", "edit"}
            /\ ~last'.raised
            /\ last'.res.error = None
            /\ last'.res.files_update # None )
          => \A k \in DOMAIN last'.res.files_update[1] :
                 last'.res.files_update[1][k].modified_at = now'
    ]_vars

(***************************************************************************)
(* Properties of the merge rule (SpecMerge).                               *)
(***************************************************************************)

\* C20: the merge of (left, right) holds key k exactly when right maps k to
\* a record, or right has no entry for k and left is a mapping that holds k;
\* the value of k is the record of right when right has one, else the value
\* in left; a key right maps to None is absent, also when left is None.
C20_MergeRule ==
    [][last'.op = "merge" =>
         \A k \in (IF last'.left = None THEN {} ELSE DOMAIN last'.left[1])
                  \cup DOMAIN last'.right \cup DOMAIN files'
                  \cup {<<"/", "x">>, <<"/", "y">>} :
             /\ k \in DOMAIN files' <=>
                    \/ k \in DOMAIN last'.right /\ last'.right[k] # None
                    \/ /\ k \notin DOMAIN last'.right
                       /\ last'.left # None
                       /\ k \in DOMAIN last'.left[1]
             /\ k \in DOMAIN files' =>
                    files'[k] = IF k \in DOMAIN last'.right THEN last'.right[k][1]
                                ELSE last'.left[1][k]
             /\ (k \in DOMAIN last'.right /\ last'.right[k] = None) => k \notin DOMAIN files'
    ]_vars

\* a merge has removed a key of the state by a tombstone, kept another key
\* the delta does not name, and taken a record from the delta
C20_Witness ==
    /\ last.op = "merge"
    /\ last.left # None
    /\ \E k \in DOMAIN last.left[1] : k \in DOMAIN last.right /\ last.right[k] = None
    /\ \E k \in DOMAIN last.left[1] : k \notin DOMAIN last.right /\ k \in DOMAIN files
    /\ DOMAIN files # {}

(***************************************************************************)
(* Properties of the router's frame (Spec).                                *)
(***************************************************************************)

\* what the router returns for a read of q on a storage
RouterRead(w, q) ==
    The({ [raised |-> r.raised, res |-> r.res]
          : r \in {CompositeBackend_read(backend, w, Ctx(now), q, 0, DEFAULT_LIMIT)} })

\* p and q are served by backends of the same kind and configuration under
\* the same key: backends built on one runtime (or one root directory)
\* share their storage, so the two paths name one file
SameFile(p, q) ==
    /\ _get_backend_and_key(backend, p).backend = _get_backend_and_key(backend, q).backend
    /\ _get_backend_and_key(backend, p).key = _get_backend_and_key(backend, q).key

\* C29 as stated: after a successful write or edit of p through the router,
\* the router's read of every other path returns what it returned before.
C29_OnlyItsPathChanges ==
    [][ (last'.op \in {"write", "edit"} /\ Succeeds(last') /\ backend.kind = "composite")
          => \A q \in Paths \ {last'.path} : RouterRead(WorldNext, q) = RouterRead(World, q)
      ]_vars

\* C29 amended: after a successful write or edit of p through the router,
\* the router's read of another path q returns what it returned before
\* unless q is served by a backend sharing its storage with the backend of p
\* under the same stripped key; in that case q now reads as p does.
C29_OnlyItsFileChanges ==
    [][ (last'.op \in {"write", "edit"} /\ Succeeds(last') /\ backend.kind = "composite")
          => \A q \in Paths \ {last'.path} :
                IF SameFile(last'.path, q)
                THEN RouterRead(WorldNext, q) = RouterRead(WorldNext, last'.path)
                ELSE RouterRead(WorldNext, q) = RouterRead(World, q) ]_vars

\* a successful write through a route to an in-memory backend of a router
\* whose default backend is in-memory too: the file shows under the stripped
\* path as well
C29_Witness ==
    /\ backend = Composite(Leaf("state"), <<Route(M, Leaf("state"))>>)
    /\ last.op = "write" /\ Succeeds(last) /\ last.path = <<"/", "m", "/", "x">>
    /\ RouterRead(World, <<"/", "x">>).res.kind = "lines"
    /\ RouterRead(World, <<"/", "x">>) = RouterRead(World, last.path)

(***************************************************************************)
(* Properties of the in-memory backend (Spec).                             *)
(***************************************************************************)

\* C21: a write or edit on the in-memory backend does not raise and leaves
\* the session's files as they were; when it succeeds its delta has the one
\* key of the path, mapped to the new record (for a write the record created
\* from the content, for an edit the old record with the replaced text and
\* the time of the call); when it fails there is no delta.
C21_DeltaOnly ==
    [][ (backend = Leaf("state") /\ last'.op \in {"write", "edit"}) =>
          /\ ~last'.raised
          /\ last'.mirrored = files
          /\ IF last'.res.error = None
             THEN /\ last'.res.path = Some(last'.path)
                  /\ last'.res.files_update # None
                  /\ DOMAIN last'.res.files_update[1] = {last'.path}
                  /\ last'.res.files_update[1][last'.path] =
                        IF last'.op = "write"
                        THEN [content |-> PySplit(last'.content, NL),
                              created_at |-> now', modified_at |-> now']
                        ELSE [content |->
                                  PySplit(PyReplace(file_data_to_string(files[last'.path]),
                                                    last'.old, last'.new), NL),
                              created_at |-> files[last'.path].created_at,
                              modified_at |-> now']
             ELSE last'.res.files_update = None /\ files' = files ]_vars

\* a successful write on the in-memory backend while the session holds
\* another file
C21_Witness ==
    /\ backend = Leaf("state")
    /\ last.op = "write" /\ last.res.error = None
    /\ Cardinality(DOMAIN files) >= 2

(***************************************************************************)
(* Properties of the tenants (SpecTenant).                                 *)
(***************************************************************************)

\* the items of a store outside a namespace, and the store without them
Foreign(st, ns) == {nk \in DOMAIN st : nk[1] # ns}
OwnStore(st, ns) == [nk \in DOMAIN st \ Foreign(st, ns) |-> st[nk]]

\* C22: on the store backend a call made under one namespace neither
\* changes nor shows the items of any other namespace: the items outside
\* the caller's namespace are the same after the call, and what read, list,
\* grep, download, write and edit return is what they return on a store
\* that holds the caller's namespace alone.
C22_TenantIsolation ==
    [][ last'.op # "switch" =>
          LET ns == _get_namespace(assistant_id)
              own == [World EXCEPT !.store = OwnStore(store, ns)]
          IN  /\ Foreign(store', ns) = Foreign(store, ns)
              /\ \A nk \in Foreign(store, ns) : store'[nk] = store[nk]
              /\ last'.op = "read" =>
                    last'.read = LeafRead(backend, own, Ctx(now), last'.path,
                                          last'.offset, last'.limit).res
              /\ last'.op = "ls_info" =>
                    last'.infos = LeafLs(backend, own, Ctx(now), last'.path).infos
              /\ last'.op = "grep_raw" =>
                    last'.matches = LeafGrep(backend, own, Ctx(now), last'.pattern,
                                             last'.path).matches
              /\ last'.op = "download_files" =>
                    last'.responses = LeafBatch(backend, own, Ctx(now), "download_files",
                                                last'.items).responses
              /\ last'.op = "write" =>
                    last'.res = LeafWrite(backend, own, Ctx(now + 1), last'.path,
                                          last'.content).res
              /\ last'.op = "edit" =>
                    last'.res = LeafEdit(backend, own, Ctx(now + 1), last'.path, last'.old,
                                         last'.new, last'.replace_all).res ]_vars

(***************************************************************************)
(* Properties of the asynchronous methods (SpecAsync).                     *)
(***************************************************************************)

\* C23: on every backend, the router included, an asynchronous write, read
\* or listing raises exactly when the synchronous call with the same
\* arguments on the same storage raises, returns the same result, and
\* leaves the same storage behind.
C23_AsyncAsSync ==
    [][ /\ last'.op = "awrite" =>
            \E s \in {BackendWrite(backend, World, Ctx(now + 1), last'.path, last'.content)} :
                /\ last'.raised = s.raised
                /\ ~s.raised => last'.res = s.res
                /\ [files |-> files', store |-> store', disk |-> disk']
                       = MergeDelta(s.w, s.raised, s.res)
        /\ last'.op = "aread" =>
            \E s \in {BackendRead(backend, World, Ctx(now), last'.path, last'.offset,
                                  last'.limit)} :
                /\ last'.raised = s.raised
                /\ ~s.raised => last'.read = s.res
        /\ last'.op = "als_info" =>
            \E s \in {BackendLs(backend, World, Ctx(now), last'.path)} :
                /\ last'.raised = s.raised
                /\ ~s.raised => last'.infos = s.infos ]_vars

(***************************************************************************)
(* Properties of the paginated search (SpecSearch).                        *)
(***************************************************************************)

\* the items of the caller's namespace, and their number
SearchItems == OwnStore(store, _get_namespace(assistant_id))
SearchCount == Cardinality(DOMAIN SearchItems)

C24_Scan ==
    /\ \A i \in 1..Len(last.requests) : last.requests[i] = (i - 1) * last.page_size
    /\ ~last.done =>
          /\ Len(last.all_items) = Len(last.requests) * last.page_size
          /\ last.offset = Len(last.requests) * last.page_size
    /\ last.done =>
          /\ Len(last.requests) = (SearchCount \div last.page_size) + 1
          /\ Len(last.all_items) = SearchCount
          /\ \A nk \in DOMAIN SearchItems :
                Cardinality({i \in 1..Len(last.all_items) :
                                /\ last.all_items[i].key = nk[2]
                                /\ last.all_items[i].value = SearchItems[nk]}) = 1

\* C24: the paginated search over an unchanging store terminates; it asks
\* for the pages at offsets 0, page_size, 2*page_size, ..., every page before
\* the last one asked is full and the last one is empty or undersized (so
\* the number of requests is count \div page_size + 1, also when the count
\* is a multiple of the page size), and the result holds every item of the
\* namespace exactly once.
C24_PaginationTerminates == []C24_Scan /\ <>(last.done)

\* a finished scan of a non-empty namespace whose count is a multiple of
\* the page size, with more than one full page
C24_Witness ==
    /\ last.op = "search" /\ last.done
    /\ SearchCount = 2 * last.page_size
    /\ last.page_size > 1
    /\ Len(last.requests) = 3

(***************************************************************************)
(* Properties of glob on the in-memory backend (SpecGlob).                 *)
(***************************************************************************)

\* the results of the last glob are files directly in its base, newest
\* first, and with /a.py, /b.txt and /sub/c.py stored the pattern *.py in /
\* gives /a.py alone
GlobDirectNewestFirst(c) ==
    /\ \A i \in 1..Len(c.infos) :
          \E np \in {_validate_path(Some(c.path))[1]} :
              /\ StartsWith(c.infos[i].path, np)
              /\ ~Contains(Slice(c.infos[i].path, Len(np)), <<SEP>>)
    /\ \A i, j \in 1..Len(c.infos) :
          i < j => c.infos[i].modified_at[1] >= c.infos[j].modified_at[1]
    /\ (DOMAIN files = {A_PY, B_TXT, SUB_C_PY}
            /\ c.pattern = <<"*", ".", "p", "y">> /\ c.path = <<"/">>)
          => (Len(c.infos) = 1 /\ c.infos[1].path = A_PY)

\* C25 as stated: a glob on the in-memory backend with a pattern that has no
\* recursive wildcard returns only files located directly in the base,
\* newest first.
C25_NonRecursiveGlobIsDirect ==
    [][ (last'.op = "glob_info" /\ ~Contains(last'.pattern, <<"*", "*">>))
            => GlobDirectNewestFirst(last') ]_vars

\* C25 amended: a glob on the in-memory backend with a pattern that has
\* neither a recursive wildcard nor a separator returns only files located
\* directly in the base, newest first; *.py in / over /a.py, /b.txt and
\* /sub/c.py returns /a.py alone.
C25_SingleSegmentGlobIsDirect ==
    [][ (last'.op = "glob_info" /\ ~Contains(last'.pattern, <<"*", "*">>)
                                /\ ~Contains(last'.pattern, <<SEP>>))
            => GlobDirectNewestFirst(last') ]_vars

\* the pattern * in / with the three files stored, /a.py written after
\* /b.txt: two results, /a.py first
C25_Witness ==
    /\ last.op = "glob_info" /\ last.pattern = <<"*">> /\ last.path = <<"/">>
    /\ DOMAIN files = {A_PY, B_TXT, SUB_C_PY}
    /\ Len(last.infos) = 2 /\ last.infos[1].path = A_PY
    /\ last.infos[1].modified_at[1] > last.infos[2].modified_at[1]

(***************************************************************************)
(* Properties of the tools (SpecTools).                                    *)
(***************************************************************************)

\* a drive-letter path, a path with a parent segment, a home path
BadPath(p) ==
    \/ Len(p) >= 2 /\ p[1] \in Letters /\ p[2] = ":"
    \/ \E i \in 1..Len(PySplit(p, SEP)) : PySplit(p, SEP)[i] = <<".", ".">>
    \/ StartsWith(p, <<"~">>)

\* C26: every tool called with a drive-letter path, a path with a parent
\* segment or a home path raises and has called no backend operation.
C26_BadPathsNeverReachBackend ==
    [][ (last'.op \in {"ls", "read_file", "write_file", "edit_file", "glob", "grep"}
            /\ BadPath(last'.path))
          => (last'.raised /\ last'.calls = <<>>) ]_vars

(***************************************************************************)
(* Properties of the filesystem backend over links (SpecLinks).            *)
(***************************************************************************)

\* the path a key names before any link is followed: under cwd in virtual
\* mode and for a relative key, else the key itself
LexicalPath(fs, key) ==
    IF fs.virtual_mode \/ ~StartsWith(key, <<SEP>>) THEN fs.cwd \o PathParts(key)
    ELSE PathParts(key)

\* the final component of the path is a symbolic link
FinalIsLink(d, lp) ==
    OpenTarget(d, lp) \in DOMAIN d /\ d[OpenTarget(d, lp)].type = "link"

\* C27: a read, write or edit of the filesystem backend on a path whose
\* final component is a symbolic link reports an error, returns no content
\* and leaves the disk as it was.
C27_FinalLinkNotFollowed ==
    [][ (last'.op \in {"read", "write", "edit"}
            /\ FinalIsLink(disk, LexicalPath(backend, last'.path)))
          => /\ disk' = disk
             /\ last'.op = "read" =>
                   last'.raised \/ last'.read.kind \in {"os_error", "not_found"}
             /\ last'.op \in {"write", "edit"} =>
                   last'.raised \/ last'.res.error # None ]_vars

(***************************************************************************)
(* Properties of concurrent writes (SpecRace).                             *)
(***************************************************************************)

\* the position in the order of a step of a call, 0 when it was not taken
StepAt(i, step) ==
    IF \E k \in 1..Len(last.order) : last.order[k] = [call |-> i, step |-> step]
    THEN CHOOSE k \in 1..Len(last.order) : last.order[k] = [call |-> i, step |-> step]
    ELSE 0

RaceDone == last.pc = <<"done", "done">>
RaceOk(i) == ~last.raised[i] /\ last.res[i].error = None /\ last.res[i].path # None

\* C28 as stated: when both writes have returned, at most one has returned
\* success.
C28_AtMostOneSucceeds == RaceDone => ~(RaceOk(1) /\ RaceOk(2))

\* C28 amended: a write whose check comes after the other write's store
\* returns the already-exists error and stores nothing; a write whose check
\* comes before it stores and returns success, so that two writes whose
\* checks both precede both stores both succeed; when both have returned at
\* least one has succeeded and the path holds the content stored last.
C28_LastStoreWins ==
    /\ \A i \in 1..2 :
          \A j \in (1..2) \ {i} :
              /\ (StepAt(i, "check") > 0 /\ StepAt(j, "store") > 0
                    /\ StepAt(j, "store") < StepAt(i, "check"))
                   => /\ last.res[i].error = Some(ErrExists)
                      /\ StepAt(i, "store") = 0
              /\ (last.pc[i] = "done" /\ StepAt(i, "store") > 0) => RaceOk(i)
              /\ (StepAt(i, "check") > 0 /\ StepAt(i, "check") < StepAt(j, "store")
                    /\ last.pc[i] = "done")
                   => RaceOk(i)
    /\ RaceDone =>
          /\ RaceOk(1) \/ RaceOk(2)
          /\ \E i \in 1..2 :
                /\ StepAt(i, "store") > 0
                /\ \A j \in (1..2) \ {i} : StepAt(j, "store") < StepAt(i, "store")
                /\ LeafContent(backend, World, Ctx(now), last.path) = Some(last.content[i])

\* both writes have returned success with different contents
C28_Witness ==
    /\ RaceDone /\ RaceOk(1) /\ RaceOk(2)
    /\ last.content[1] # last.content[2]
    /\ LeafContent(backend, World, Ctx(now), last.path) = Some(last.content[1])


(***************************************************************************)
(* Properties of the tool call patch (SpecPatch).                          *)
(***************************************************************************)

\* s is a subsequence of t, in order
IsSubSeq(s, t) ==
    \E f \in [1..Len(s) -> 1..Len(t)] :
        /\ \A k \in 1..Len(s) : t[f[k]] = s[k]
        /\ \A k \in 1..Len(s) : \A l \in 1..Len(s) : k < l => f[k] < f[l]

\* no AI message of the history has a call without a tool message at or
\* after it
NoDangling(messages) ==
    \A i \in 1..Len(messages) : \A c \in 1..Len(messages[i].tool_calls) :
        ~Dangling(messages, i, messages[i].tool_calls[c])

\* every call of every AI message has a tool message with its id at or after
\* the AI message in the list r
Answered(messages, r) ==
    \A i \in 1..Len(messages) : \A c \in 1..Len(messages[i].tool_calls) :
        \E k \in 1..Len(r) : \E j \in k..Len(r) :
            /\ r[k] = messages[i]
            /\ r[j].type = "tool"
            /\ r[j].tool_call_id = Some(messages[i].tool_calls[c].id)

\* C30: for every non-empty history before_agent returns a list that keeps
\* the original messages in order and holds, for every tool call of every AI
\* message, a tool message with the call's id at or after the AI message; a
\* history without dangling calls is returned unchanged.
C30_EveryCallAnswered ==
    (last.op = "before_agent" /\ last.messages # <<>>)
        => /\ ~last.raised
           /\ last.result # None
           /\ IsSubSeq(last.messages, last.result[1])
           /\ Answered(last.messages, last.result[1])
           /\ NoDangling(last.messages) => last.result[1] = last.messages
====
